---- MODULE Spec2Model ----
(***************************************************************************)
(* A model of the HR gateway: src/src/function_app.py (the routes and      *)
(* _handle_request) and src/src/workday/client.py (WorkdayClient).         *)
(*                                                                         *)
(* Python strings that the code inspects are sequences of one-character    *)
(* strings; JSON values are tagged records; a Python float is its value    *)
(* in tenths (an integer), exact for the quantities drawn here.            *)
(***************************************************************************)
EXTENDS Integers, Sequences, FiniteSets, TLC

VARIABLES
    pc,         \* where the gateway is: "idle", "lookup", "op", "done"
    route,      \* the route of the request being processed
    request,    \* the inbound request: [auth, body]
    client,     \* the WorkdayClient of this request (fields of the instance)
    locals,     \* the handler's local variables that outlive a backend call
    calls,      \* the backend calls issued while processing this request
    reply,      \* the backend's raw reply to the last call
    response,   \* the HTTP response returned to the caller
    ret         \* the outcome of the last client method (client harness)

vars == <<pc, route, request, client, locals, calls, reply, response, ret>>

----------------------------------------------------------------------------
(* Strings                                                                 *)

UpperChars == <<"A","B","C","D","E","F","G","H","I","J","K","L","M",
                "N","O","P","Q","R","S","T","U","V","W","X","Y","Z">>
LowerChars == <<"a","b","c","d","e","f","g","h","i","j","k","l","m",
                "n","o","p","q","r","s","t","u","v","w","x","y","z">>
DigitChars == <<"0","1","2","3","4","5","6","7","8","9">>

IndexIn(c, seq) ==
    IF \E i \in 1..Len(seq) : seq[i] = c
    THEN CHOOSE i \in 1..Len(seq) : seq[i] = c
    ELSE 0

\* str.lower(), character by character
LowerChar(c) == IF IndexIn(c, UpperChars) > 0 THEN LowerChars[IndexIn(c, UpperChars)] ELSE c
Lower(s) == [i \in 1..Len(s) |-> LowerChar(s[i])]

\* str.startswith(prefix)
StartsWith(s, prefix) ==
    /\ Len(s) >= Len(prefix)
    /\ \A i \in 1..Len(prefix) : s[i] = prefix[i]

\* s[n:]
DropPrefix(s, n) == IF n >= Len(s) THEN <<>> ELSE SubSeq(s, n + 1, Len(s))

IsSpace(c) == c = " "

RECURSIVE LStrip(_)
LStrip(s) == IF s # <<>> /\ IsSpace(Head(s)) THEN LStrip(Tail(s)) ELSE s

RECURSIVE RStrip(_)
RStrip(s) ==
    IF s # <<>> /\ IsSpace(s[Len(s)]) THEN RStrip(SubSeq(s, 1, Len(s) - 1)) ELSE s

\* str.strip()
Strip(s) == RStrip(LStrip(s))

IsDigit(c) == IndexIn(c, DigitChars) > 0
DigitVal(c) == IndexIn(c, DigitChars) - 1
AllDigits(s) == \A i \in 1..Len(s) : IsDigit(s[i])

RECURSIVE ToInt(_)
ToInt(s) == IF s = <<>> THEN 0 ELSE 10 * ToInt(SubSeq(s, 1, Len(s) - 1)) + DigitVal(s[Len(s)])

\* the decimal digits of n, zero-padded to at least width characters ("%0<width>d")
RECURSIVE Digits(_, _)
Digits(n, width) ==
    IF n < 10 /\ width <= 1
    THEN <<DigitChars[n + 1]>>
    ELSE Digits(n \div 10, width - 1) \o <<DigitChars[(n % 10) + 1]>>

\* s.split(sep) for a one-character separator
RECURSIVE Split(_, _)
Split(s, sep) ==
    IF \E i \in 1..Len(s) : s[i] = sep
    THEN LET i == CHOOSE k \in 1..Len(s) : s[k] = sep /\ \A j \in 1..(k - 1) : s[j] # sep
         IN  <<SubSeq(s, 1, i - 1)>> \o Split(SubSeq(s, i + 1, Len(s)), sep)
    ELSE <<s>>

----------------------------------------------------------------------------
(* JSON values and Python objects                                          *)

None == [t |-> "none"]
Str(s) == [t |-> "str", v |-> s]
Num(lit) == [t |-> "num", v |-> lit]       \* a JSON number, by its literal
Bool(b) == [t |-> "bool", v |-> b]
List(items) == [t |-> "list", items |-> items]
Dict(kv) == [t |-> "dict", kv |-> kv]      \* kv: a function from the present keys
EmptyDict == Dict(<<>>)

IsDict(v) == v.t = "dict"
IsStr(v) == v.t = "str"

\* dict.get(key, default)
Get(d, key, default) == IF key \in DOMAIN d.kv THEN d.kv[key] ELSE default

\* Python truth value
Truthy(v) ==
    CASE v.t = "none" -> FALSE
      [] v.t = "str"  -> v.v # <<>>
      [] v.t = "num"  -> v.v # <<"0">>
      [] v.t = "bool" -> v.v
      [] v.t = "list" -> v.items # <<>>
      [] v.t = "dict" -> DOMAIN v.kv # {}
      [] OTHER        -> TRUE

\* a or b
Or(a, b) == IF Truthy(a) THEN a ELSE b

\* str(v) for the values a request or a report carries: a string is itself, a
\* number is its literal (the literals drawn are canonical: "4", "4.5"),
\* None is "None"
PyStr(v) ==
    CASE v.t = "str"  -> v.v
      [] v.t = "num"  -> v.v
      [] v.t = "none" -> <<"N","o","n","e">>
      [] v.t = "bool" -> IF v.v THEN <<"T","r","u","e">> ELSE <<"F","a","l","s","e">>
      [] OTHER        -> <<"?">>

\* float(s) of a string: surrounding whitespace stripped, then digits with an
\* optional fraction; the value in tenths, or -1 for ValueError. Fractions of
\* more than one digit are not drawn and not represented.
FloatOfChars(s) ==
    LET parts == Split(Strip(s), ".")
    IN  IF Len(parts) = 1 /\ parts[1] # <<>> /\ AllDigits(parts[1])
        THEN 10 * ToInt(parts[1])
        ELSE IF /\ Len(parts) = 2
                /\ AllDigits(parts[1]) /\ AllDigits(parts[2])
                /\ Len(parts[2]) <= 1
                /\ parts[1] # <<>> \/ parts[2] # <<>>
        THEN 10 * ToInt(parts[1]) + ToInt(parts[2])
        ELSE -1

\* float(v): [ok, value in tenths, error]; a string that is no number raises
\* ValueError, None or a list or a dict raises TypeError
PyFloat(v) ==
    CASE v.t = "str"  -> IF FloatOfChars(v.v) >= 0
                         THEN [ok |-> TRUE, value |-> FloatOfChars(v.v), error |-> "none"]
                         ELSE [ok |-> FALSE, value |-> 0, error |-> "ValueError"]
      [] v.t = "num"  -> [ok |-> TRUE, value |-> FloatOfChars(v.v), error |-> "none"]
      [] v.t = "bool" -> [ok |-> TRUE, value |-> IF v.v THEN 10 ELSE 0, error |-> "none"]
      [] OTHER        -> [ok |-> FALSE, value |-> 0, error |-> "TypeError"]

----------------------------------------------------------------------------
(* Exceptions and outcomes                                                 *)

NoStatus == -1      \* status_code=None of a WorkdayError

Msg(text, code) == [t |-> "msg", text |-> text, code |-> code]

Exc(type, message, status_code, payload) ==
    [type |-> type, message |-> message, status_code |-> status_code, payload |-> payload]

NoExc == Exc("none", Msg("", 0), NoStatus, None)

WorkdayError(message, status_code, payload) == Exc("WorkdayError", message, status_code, payload)
ValueError(text) == Exc("ValueError", Msg(text, 0), NoStatus, None)
OtherError(type) == Exc(type, Msg("", 0), NoStatus, None)

Return(v) == [raised |-> FALSE, value |-> v, exc |-> NoExc]
Raise(e) == [raised |-> TRUE, value |-> None, exc |-> e]

----------------------------------------------------------------------------
(* Calendar dates: datetime.date                                           *)

Date(y, m, d) == [y |-> y, m |-> m, d |-> d]

IsLeap(y) == (y % 4 = 0 /\ y % 100 # 0) \/ y % 400 = 0

DaysInMonth(y, m) ==
    IF m = 2 THEN (IF IsLeap(y) THEN 29 ELSE 28)
    ELSE IF m \in {4, 6, 9, 11} THEN 30 ELSE 31

\* current + timedelta(days=1)
NextDay(dt) ==
    IF dt.d < DaysInMonth(dt.y, dt.m) THEN Date(dt.y, dt.m, dt.d + 1)
    ELSE IF dt.m < 12 THEN Date(dt.y, dt.m + 1, 1)
    ELSE Date(dt.y + 1, 1, 1)

\* a < b, a <= b on dates
\* a comparison that stops at the month takes two days of one month as equal
DateLTToMonth(a, b) == a.y < b.y \/ (a.y = b.y /\ a.m < b.m)

DateLT(a, b) ==
    \/ a.y < b.y
    \/ a.y = b.y /\ a.m < b.m
    \/ a.y = b.y /\ a.m = b.m /\ a.d < b.d
DateLE(a, b) == a = b \/ DateLT(a, b)

\* datetime.strptime(s, "%Y-%m-%d").date() of a string: %Y is four digits,
\* %m one or two digits in 1..12, %d one or two digits in 1..31, and the day
\* must exist in the month; anything else is ValueError
StrptimeChars(s) ==
    LET parts == Split(s, "-")
    IN  IF /\ Len(parts) = 3
           /\ Len(parts[1]) = 4 /\ AllDigits(parts[1])
           /\ Len(parts[2]) \in {1, 2} /\ AllDigits(parts[2])
           /\ Len(parts[3]) \in {1, 2} /\ AllDigits(parts[3])
           /\ ToInt(parts[1]) >= 1
           /\ ToInt(parts[2]) \in 1..12
           /\ ToInt(parts[3]) \in 1..DaysInMonth(ToInt(parts[1]), ToInt(parts[2]))
        THEN [ok |-> TRUE, date |-> Date(ToInt(parts[1]), ToInt(parts[2]), ToInt(parts[3]))]
        ELSE [ok |-> FALSE, date |-> Date(1, 1, 1)]

\* date.isoformat(): YYYY-MM-DD, zero-padded
IsoFormat(dt) == Digits(dt.y, 4) \o <<"-">> \o Digits(dt.m, 2) \o <<"-">> \o Digits(dt.d, 2)

\* a loop "while current < end" leaves the last day out
RECURSIVE _date_range_exclusive(_, _)
_date_range_exclusive(start, end) ==
    IF DateLT(start, end) THEN <<start>> \o _date_range_exclusive(NextDay(start), end) ELSE <<>>

\* _date_range(start, end): the days from start while current <= end
RECURSIVE _date_range(_, _)
_date_range(start, end) ==
    IF DateLE(start, end) THEN <<start>> \o _date_range(NextDay(start), end) ELSE <<>>

T0800 == <<"T","0","8",":","0","0",":","0","0",".","0","0","0","Z">>
T1700 == <<"T","1","7",":","0","0",":","0","0",".","0","0","0","Z">>
DaysWord == <<"d","a","y","s">>
EightChars == <<"8">>
HoursWord == <<"H","o","u","r","s">>

\* a comparison without lower() misses "Days" and "DAYS"
IsDaysUnitCaseSensitive(unit) == unit = DaysWord

\* function_app.py 143: unit.lower() == "days"
IsDaysUnit(unit) == Lower(unit) = DaysWord

\* the day entry of one day (function_app.py 143-157); unit is a str here
DayEntry(day, quantity, unit, reason, time_off_type_id) ==
    LET daily_quantity == IF IsDaysUnit(unit.v) THEN EightChars ELSE quantity
        iso_date == IsoFormat(day)
    IN  Dict([date          |-> Str(iso_date \o T0800),
              start         |-> Str(iso_date \o T0800),
              end           |-> Str(iso_date \o T1700),
              dailyQuantity |-> Str(daily_quantity),
              comment       |-> reason,
              timeOffType   |-> Dict([id |-> time_off_type_id])])

\* _create_days_array: start_date, end_date, unit, reason, time_off_type_id are
\* the JSON values of the body, quantity is str(...) of one. strptime of a
\* value that is no str raises TypeError, which "except ValueError" lets
\* through; unit.lower() of a value that is no str raises AttributeError.
_create_days_array(start_date, end_date, quantity, unit, reason, time_off_type_id) ==
    IF ~IsStr(start_date) \/ (StrptimeChars(start_date.v).ok /\ ~IsStr(end_date))
    THEN Raise(OtherError("TypeError"))
    ELSE IF ~StrptimeChars(start_date.v).ok \/ ~StrptimeChars(end_date.v).ok
    THEN Raise(ValueError("startDate and endDate must use YYYY-MM-DD format"))
    ELSE LET start == StrptimeChars(start_date.v).date
             end   == StrptimeChars(end_date.v).date
             days  == _date_range(start, end)
         IN  IF DateLT(end, start)
             THEN Raise(ValueError("endDate cannot be earlier than startDate"))
             ELSE IF ~IsStr(unit)
             THEN Raise(OtherError("AttributeError"))
             ELSE Return(List([i \in 1..Len(days) |->
                      DayEntry(days[i], quantity, unit, reason, time_off_type_id)]))

----------------------------------------------------------------------------
(* More Python values: string constants of the code, messages, numbers the *)
(* code computes, and the WorkdayUserContext dataclass                     *)

Lit(s) == [t |-> "lit", s |-> s]
Int_(n) == [t |-> "int", n |-> n]
Float(tenths) == [t |-> "float", tenths |-> tenths]
UserContext(worker_id, workday_id) ==
    [t |-> "ctx", worker_id |-> worker_id, workday_id |-> workday_id]

----------------------------------------------------------------------------
(* The backend's reply to one call: requests.Response, or no response     *)
(* (requests.RequestException). text is response.text; doc is what         *)
(* response.json() returns for that text, Invalid when it raises.          *)

Invalid == [t |-> "invalid"]

Unreachable ==
    [reached |-> FALSE, status_code |-> NoStatus, json_ctype |-> FALSE, text |-> <<>>, doc |-> Invalid]
JsonReply(status, doc) ==
    [reached |-> TRUE, status_code |-> status, json_ctype |-> TRUE, text |-> <<"{","}">>, doc |-> doc]
TextReply(status, text) ==
    [reached |-> TRUE, status_code |-> status, json_ctype |-> FALSE, text |-> text, doc |-> Invalid]
EmptyReply(status, json_ctype) ==
    [reached |-> TRUE, status_code |-> status, json_ctype |-> json_ctype, text |-> <<>>, doc |-> Invalid]

\* requests.Response.ok: raise_for_status() raises for 400 <= status < 600 only
ResponseOk(status_code) == ~(400 <= status_code /\ status_code < 600)

\* the decoded body (client.py 99-107)
DecodeBody(r) ==
    IF r.json_ctype \/ r.text # <<>>
    THEN (IF r.doc # Invalid THEN r.doc ELSE Str(r.text))
    ELSE None

\* WorkdayClient._request
_request(r) ==
    IF ~r.reached
    THEN Raise(WorkdayError(Msg("Failed to reach Workday", 0), NoStatus, None))
    ELSE IF ~ResponseOk(r.status_code)
    THEN Raise(WorkdayError(Msg("Workday request failed", r.status_code),
                            r.status_code, DecodeBody(r)))
    ELSE Return(DecodeBody(r))

\* one issued call: the method, the endpoint, the identifier its URL or query
\* carries, the JSON body, the Authorization header sent
BearerWord == <<"B","e","a","r","e","r"," ">>
_headers(c) == BearerWord \o c._access_token
\* and, as the debug log of client.py 97 records it, the status that came back
Call(c, method, endpoint, arg, json_body, r) ==
    [method |-> method, endpoint |-> endpoint, arg |-> arg, json_body |-> json_body,
     auth |-> _headers(c), status |-> r.status_code, raised |-> _request(r).raised]

----------------------------------------------------------------------------
(* WorkdayClient                                                           *)

\* WorkdayClient.__init__
NewClient(access_token) ==
    [_access_token |-> access_token, _user_context |-> None, _worker_profile_cache |-> None]

\* v[0] of a truthy value: the first item of a list, the first character of a
\* str, KeyError for a dict (no key 0), TypeError for a number
First(v) ==
    CASE v.t = "list" -> Return(v.items[1])
      [] v.t = "str"  -> Return(Str(<<v.v[1]>>))
      [] v.t = "dict" -> Raise(OtherError("KeyError"))
      [] OTHER        -> Raise(OtherError("TypeError"))

AttrErr == [t |-> "AttributeError"]

\* v.get(k1, {}).get(k2, {}) ... .get(kn): a step on a value that is no dict
\* raises AttributeError
RECURSIVE GetPath(_, _)
GetPath(v, path) ==
    IF ~IsDict(v) THEN AttrErr
    ELSE IF Len(path) = 1 THEN Get(v, path[1], None)
    ELSE GetPath(Get(v, path[1], EmptyDict), Tail(path))

\* what a method gives: the instance afterwards, the outcome, the calls issued
Result(c, out, issued) == [client |-> c, out |-> out, issued |-> issued]

\* a client that never finds its cached context looks the caller up again
ContextCachedNever(c) == FALSE

\* client.py 119: a context is cached
ContextCached(c) == c._user_context # None

\* a check of the worker id alone lets an empty workday id into the cache
WorkerIdMissing(worker_id, workday_id) == ~Truthy(worker_id)

\* client.py 131: an identifier is missing or empty
IdentifiersMissing(worker_id, workday_id) == ~Truthy(worker_id) \/ ~Truthy(workday_id)

\* WorkdayClient.get_user_context; r is the backend's reply to the lookup
get_user_context(c, r) ==
    IF ContextCached(c)
    THEN Result(c, Return(c._user_context), <<>>)
    ELSE
    LET req     == _request(r)
        issued  == <<Call(c, "GET", "worker_search", None, None, r)>>
        payload == req.value
        entries == IF IsDict(payload) THEN Get(payload, "Report_Entry", None) ELSE None
    IN  IF req.raised THEN Result(c, req, issued)
        ELSE IF ~Truthy(entries)
        THEN Result(c, Raise(WorkdayError(
                 Msg("Workday worker search report returned no entries", 0), NoStatus, None)),
                 issued)
        ELSE IF First(entries).raised THEN Result(c, First(entries), issued)
        ELSE IF ~IsDict(First(entries).value)
        THEN Result(c, Raise(OtherError("AttributeError")), issued)
        ELSE
        LET entry      == First(entries).value
            worker_id  == Or(Get(entry, "Current_User", None), Get(entry, "current_user", None))
            workday_id == Or(Get(entry, "workdayID", None), Get(entry, "workdayId", None))
        IN  IF IdentifiersMissing(worker_id, workday_id)
            THEN Result(c, Raise(WorkdayError(
                     Msg("Worker search response did not include expected identifiers", 0),
                     NoStatus, entry)), issued)
            ELSE LET ctx == UserContext(PyStr(worker_id), PyStr(workday_id))
                 IN  Result([c EXCEPT !._user_context = ctx], Return(ctx), issued)

\* WorkdayClient.request_time_off; r is the backend's reply to the submission
request_time_off(c, workday_id, days, r) ==
    LET req == _request(r)
        issued == <<Call(c, "POST", "requestTimeOff", Str(workday_id), Dict([days |-> days]), r)>>
    IN  IF req.raised THEN Result(c, req, issued)
        ELSE Result(c, Return(IF IsDict(req.value) THEN req.value
                              ELSE Dict([workdayResponse |-> req.value])), issued)

\* WorkdayClient.change_business_title
change_business_title(c, workday_id, proposed_title, r) ==
    LET req == _request(r)
        issued == <<Call(c, "POST", "businessTitleChanges", Str(workday_id), Dict([proposedBusinessTitle |-> proposed_title]), r)>>
    IN  IF req.raised THEN Result(c, req, issued)
        ELSE Result(c, Return(IF IsDict(req.value) THEN req.value
                              ELSE Dict([workdayResponse |-> req.value])), issued)

\* get_worker_profile once get_user_context gave ctx (client.py 142-150)
ProfileOfContext(ctx, r2) ==
    IF ctx.out.raised THEN ctx
    ELSE
    LET req     == _request(r2)
        issued  == ctx.issued \o <<Call(ctx.client, "GET", "workers", Str(ctx.out.value.worker_id), None, r2)>>
        payload == req.value
        data    == IF IsDict(payload) THEN Get(payload, "data", None) ELSE None
    IN  IF req.raised THEN Result(ctx.client, req, issued)
        ELSE IF ~Truthy(data)
        THEN Result(ctx.client, Raise(WorkdayError(
                 Msg("Worker search did not return any results", 0), NoStatus, payload)),
                 issued)
        ELSE IF First(data).raised THEN Result(ctx.client, First(data), issued)
        ELSE Result([ctx.client EXCEPT !._worker_profile_cache = First(data).value],
                    Return(First(data).value), issued)

\* a client that never finds its cached profile fetches it again
ProfileCachedNever(c) == FALSE

\* client.py 138: a profile is cached
ProfileCached(c) == c._worker_profile_cache # None

\* WorkdayClient.get_worker_profile; r1 is the reply to the lookup (read only
\* when no context is cached), r2 the reply to the worker search
get_worker_profile(c, r1, r2) ==
    IF ProfileCached(c)
    THEN Result(c, Return(c._worker_profile_cache), <<>>)
    ELSE ProfileOfContext(get_user_context(c, r1), r2)

\* the output fields of transform_worker_profile and the path each one reads
ProfilePaths ==
    [workdayId               |-> <<"id">>,
     workerId                |-> <<"workerId">>,
     name                    |-> <<"descriptor">>,
     email                   |-> <<"person", "email">>,
     workerType              |-> <<"workerType", "descriptor">>,
     businessTitle           |-> <<"primaryJob", "businessTitle">>,
     location                |-> <<"primaryJob", "location", "descriptor">>,
     locationId              |-> <<"primaryJob", "location", "Location_ID">>,
     country                 |-> <<"primaryJob", "location", "country", "descriptor">>,
     countryCode             |-> <<"primaryJob", "location", "country", "ISO_3166-1_Alpha-3_Code">>,
     supervisoryOrganization |-> <<"primaryJob", "supervisoryOrganization", "descriptor">>,
     jobType                 |-> <<"primaryJob", "jobType", "descriptor">>,
     jobProfile              |-> <<"primaryJob", "jobProfile", "descriptor">>,
     primaryJobId            |-> <<"primaryJob", "id">>,
     primaryJobDescriptor    |-> <<"primaryJob", "descriptor">>]

\* transform_worker_profile once get_worker_profile gave got (client.py 154-170)
TransformProfile(got) ==
    IF got.out.raised THEN got
    ELSE IF \E k \in DOMAIN ProfilePaths : GetPath(got.out.value, ProfilePaths[k]) = AttrErr
    THEN Result(got.client, Raise(OtherError("AttributeError")), got.issued)
    ELSE Result(got.client,
                Return(Dict([k \in DOMAIN ProfilePaths |-> GetPath(got.out.value, ProfilePaths[k])])),
                got.issued)

\* WorkdayClient.transform_worker_profile
transform_worker_profile(c, r1, r2) == TransformProfile(get_worker_profile(c, r1, r2))

----------------------------------------------------------------------------
(* The list methods of WorkdayClient and the record normalizers            *)

Absent == [t |-> "absent"]

\* a dict of the keys whose value is not Absent
Field(key, v) == IF v = Absent THEN <<>> ELSE (key :> v)

TypeErr == [t |-> "TypeError"]
IsErr(v) == v \in {AttrErr, TypeErr}

\* a chain of plain get(k) calls raises on the first nested object that is
\* missing
RECURSIVE GetPathNoDefault(_, _, _)
GetPathNoDefault(v, path, default) ==
    IF ~IsDict(v) THEN AttrErr
    ELSE IF Len(path) = 1 THEN Get(v, path[1], default)
    ELSE GetPathNoDefault(Get(v, path[1], None), Tail(path), default)

\* v.get(k1, {}).get(k2, {}) ... .get(kn, default)
RECURSIVE GetPathDefault(_, _, _)
GetPathDefault(v, path, default) ==
    IF ~IsDict(v) THEN AttrErr
    ELSE IF Len(path) = 1 THEN Get(v, path[1], default)
    ELSE GetPathDefault(Get(v, path[1], EmptyDict), Tail(path), default)

\* "for item in v": the items of a list, the characters of a str, the keys of
\* a dict (strings; one stands for them all, as every use calls .get on the
\* item); TypeError for None, a number or a bool
Iterate(v) ==
    CASE v.t = "list" -> Return(v.items)
      [] v.t = "str"  -> Return([i \in 1..Len(v.v) |-> Str(<<v.v[i]>>)])
      [] v.t = "dict" -> Return(IF DOMAIN v.kv = {} THEN <<>> ELSE <<Str(<<"k">>)>>)
      [] OTHER        -> Raise(OtherError("TypeError"))

\* the record a comprehension or a flattener builds from its field values:
\* the first failing field raises; both AttributeError and TypeError leave
\* the handler as an unexpected fault
Record(fields) ==
    IF \E k \in DOMAIN fields : fields[k] = AttrErr THEN Raise(OtherError("AttributeError"))
    ELSE IF \E k \in DOMAIN fields : fields[k] = TypeErr THEN Raise(OtherError("TypeError"))
    ELSE Return(Dict(fields))

\* [f(item) for item in items] where f gives records: the list, or what the
\* first failing item raised
Comprehension(outs) ==
    IF \E i \in 1..Len(outs) : outs[i].raised
    THEN outs[CHOOSE i \in 1..Len(outs) : outs[i].raised /\ \A j \in 1..(i - 1) : ~outs[j].raised]
    ELSE Return(List([i \in 1..Len(outs) |-> outs[i].value]))

Zero == Str(<<"0">>)
Empty == Str(<<>>)

\* the output fields of each list method and, for each, the path it reads and
\* the default of its last get (client.py 177-313)
ItemFields ==
    [balances |->
        [planName      |-> <<<<"absencePlan", "descriptor">>, None>>,
         planId        |-> <<<<"absencePlan", "id">>, None>>,
         balance       |-> <<<<"quantity">>, Zero>>,
         unit          |-> <<<<"unit", "descriptor">>, None>>,
         effectiveDate |-> <<<<"effectiveDate">>, None>>,
         timeOffTypes  |-> <<<<"absencePlan", "timeoffs">>, Empty>>],
     eligibleAbsenceTypes |->
        [name                         |-> <<<<"descriptor">>, None>>,
         id                           |-> <<<<"id">>, None>>,
         unit                         |-> <<<<"unitOfTime", "descriptor">>, None>>,
         category                     |-> <<<<"category", "descriptor">>, None>>,
         group                        |-> <<<<"absenceTypeGroup", "descriptor">>, None>>,
         dailyDefaultQuantity         |-> <<<<"dailyDefaultQuantity">>, None>>,
         startAndEndTimeRequired      |-> <<<<"startAndEndTimeRequired">>, Bool(FALSE)>>,
         calculateQuantityBasedOnTime |-> <<<<"calculateQuantityBasedOnStartAndEndTime">>, Bool(FALSE)>>],
     leavesOfAbsence |->
        [id               |-> <<<<"id">>, None>>,
         leaveType        |-> <<<<"leaveType", "descriptor">>, None>>,
         status           |-> <<<<"status", "descriptor">>, None>>,
         firstDayOfLeave  |-> <<<<"firstDayOfLeave">>, None>>,
         lastDayOfWork    |-> <<<<"lastDayOfWork">>, None>>,
         estimatedLastDay |-> <<<<"estimatedLastDayOfLeave">>, None>>,
         comment          |-> <<<<"latestLeaveComment">>, Empty>>],
     timeOffDetails |->
        [date        |-> <<<<"date">>, None>>,
         timeOffType |-> <<<<"timeOffType", "descriptor">>, None>>,
         quantity    |-> <<<<"quantity">>, None>>,
         unit        |-> <<<<"unit", "descriptor">>, None>>,
         status      |-> <<<<"status", "descriptor">>, None>>,
         comment     |-> <<<<"comment">>, Empty>>],
     timeOffEntries |->
        [employee                 |-> <<<<"employee", "descriptor">>, None>>,
         timeOffRequestStatus     |-> <<<<"timeOffRequest", "status">>, None>>,
         timeOffRequestDescriptor |-> <<<<"timeOffRequest", "descriptor">>, None>>,
         unitOfTime               |-> <<<<"unitOfTime", "descriptor">>, None>>,
         timeOffPlan              |-> <<<<"timeOff", "plan", "descriptor">>, None>>,
         timeOffDescriptor        |-> <<<<"timeOff", "descriptor">>, None>>,
         date                     |-> <<<<"date">>, None>>,
         units                    |-> <<<<"units">>, None>>,
         descriptor               |-> <<<<"descriptor">>, None>>],
     inboxTasks |->
        [assigned       |-> <<<<"assigned">>, None>>,
         due            |-> <<<<"due">>, None>>,
         initiator      |-> <<<<"initiator", "descriptor">>, None>>,
         status         |-> <<<<"status", "descriptor">>, None>>,
         stepType       |-> <<<<"stepType", "descriptor">>, None>>,
         subject        |-> <<<<"subject", "descriptor">>, None>>,
         overallProcess |-> <<<<"overallProcess", "descriptor">>, None>>,
         descriptor     |-> <<<<"descriptor">>, None>>],
     directReports |->
        [isManager                      |-> <<<<"isManager">>, None>>,
         primaryWorkPhone               |-> <<<<"primaryWorkPhone">>, None>>,
         primaryWorkEmail               |-> <<<<"primaryWorkEmail">>, None>>,
         primarySupervisoryOrganization |-> <<<<"primarySupervisoryOrganization", "descriptor">>, None>>,
         businessTitle                  |-> <<<<"businessTitle">>, None>>,
         descriptor                     |-> <<<<"descriptor">>, None>>],
     paySlips |->
        [gross      |-> <<<<"gross">>, None>>,
         status     |-> <<<<"status", "descriptor">>, None>>,
         net        |-> <<<<"net">>, None>>,
         date       |-> <<<<"date">>, None>>,
         descriptor |-> <<<<"descriptor">>, None>>]]

\* str(entry.get(key, "0")) == "1" (client.py 339-340)
IsOne(entry, key) == Bool(PyStr(Get(entry, key, Zero)) = <<"1">>)

\* the record get_learning_assignments builds of one entry (client.py 335-342)
AssignmentRecord(entry) ==
    IF ~IsDict(entry) THEN Raise(OtherError("AttributeError"))
    ELSE Record([assignmentStatus |-> Get(entry, "assignmentStatus", None),
                 dueDate          |-> Get(entry, "dueDate", None),
                 learningContent  |-> Get(entry, "learningContent", None),
                 overdue          |-> IsOne(entry, "overdue"),
                 required         |-> IsOne(entry, "required"),
                 workdayId        |-> Or(Get(entry, "workdayId", None), Get(entry, "workdayID", None))])

\* the record a list method builds of one item
ItemRecord(kind, item) ==
    IF kind = "learningAssignments" THEN AssignmentRecord(item)
    ELSE Record([k \in DOMAIN ItemFields[kind] |->
                    GetPathDefault(item, ItemFields[kind][k][1], ItemFields[kind][k][2])])

\* the list methods: their endpoint, and the key their collection is under
ListKinds ==
    {"balances", "eligibleAbsenceTypes", "leavesOfAbsence", "timeOffDetails", "timeOffEntries",
     "inboxTasks", "directReports", "paySlips", "learningAssignments"}
CollectionKey(kind) == IF kind = "learningAssignments" THEN "Report_Entry" ELSE "data"

\* payload.get(key) if isinstance(payload, dict) else []
Collection(payload, key) == IF IsDict(payload) THEN Get(payload, key, None) ELSE List(<<>>)

\* the comprehension of a list method over the collection taken of payload
NormalizeList(kind, payload) ==
    LET items == Iterate(Collection(payload, CollectionKey(kind)))
    IN  IF items.raised THEN items
        ELSE Comprehension([i \in 1..Len(items.value) |-> ItemRecord(kind, items.value[i])])

\* a list method once "workday_id or self.get_user_context().workday_id" is
\* evaluated: ctx is the outcome of get_user_context, or the instance as it is
\* with the given id when that is truthy; r is the reply to the method's call
ListOfContext(kind, ctx, r) ==
    IF ctx.out.raised THEN ctx
    ELSE
    LET issued == ctx.issued \o <<Call(ctx.client, "GET", kind, Str(ctx.out.value), None, r)>>
    IN  IF _request(r).raised THEN Result(ctx.client, _request(r), issued)
        ELSE Result(ctx.client, NormalizeList(kind, _request(r).value), issued)

\* wid = workday_id or self.get_user_context().workday_id; r0 is the reply to
\* the lookup, read only when the id is falsy and no context is cached
WidOf(c, workday_id, r0) ==
    IF Truthy(workday_id) THEN Result(c, Return(workday_id.v), <<>>)
    ELSE LET ctx == get_user_context(c, r0)
         IN  IF ctx.out.raised THEN ctx
             ELSE Result(ctx.client, Return(ctx.out.value.workday_id), ctx.issued)

get_leave_balances(c, workday_id, r0, r) == ListOfContext("balances", WidOf(c, workday_id, r0), r)
get_eligible_absence_types(c, workday_id, r0, r) == ListOfContext("eligibleAbsenceTypes", WidOf(c, workday_id, r0), r)
get_leaves_of_absence(c, workday_id, r0, r) == ListOfContext("leavesOfAbsence", WidOf(c, workday_id, r0), r)
get_time_off_details(c, workday_id, r0, r) == ListOfContext("timeOffDetails", WidOf(c, workday_id, r0), r)
get_time_off_entries(c, workday_id, r0, r) == ListOfContext("timeOffEntries", WidOf(c, workday_id, r0), r)
get_inbox_tasks(c, workday_id, r0, r) == ListOfContext("inboxTasks", WidOf(c, workday_id, r0), r)
get_direct_reports(c, workday_id, r0, r) == ListOfContext("directReports", WidOf(c, workday_id, r0), r)
get_pay_slips(c, workday_id, r0, r) == ListOfContext("paySlips", WidOf(c, workday_id, r0), r)
get_learning_assignments(c, workday_id, r0, r) == ListOfContext("learningAssignments", WidOf(c, workday_id, r0), r)

\* a list method by its kind
ListMethod(kind, c, workday_id, r0, r) == ListOfContext(kind, WidOf(c, workday_id, r0), r)

\* WorkdayClient.search_learning_content: params carries the skills and the
\* topics, None when there are neither
search_learning_content(c, skills, topics, r) ==
    LET params == Field("skills", IF skills = <<>> THEN Absent ELSE List(skills))
                  @@ Field("topics", IF topics = <<>> THEN Absent ELSE List(topics))
        issued == <<Call(c, "GET", "content", IF DOMAIN params = {} THEN None ELSE Dict(params), None, r)>>
    IN  IF _request(r).raised THEN Result(c, _request(r), issued)
        ELSE Result(c, Return(IF IsDict(_request(r).value) THEN _request(r).value
                              ELSE Dict([data |-> _request(r).value])), issued)

\* WorkdayClient.get_content_lessons: content_id is what item.get("id") gave
get_content_lessons(c, content_id, r) ==
    LET issued == <<Call(c, "GET", "lessons", content_id, None, r)>>
    IN  IF _request(r).raised THEN Result(c, _request(r), issued)
        ELSE Result(c, Return(Collection(_request(r).value, "data")), issued)

\* d.get(key) or {}   (of a dict d)
GetOrEmpty(d, key) == IF ~IsDict(d) THEN AttrErr ELSE Or(Get(d, key, None), EmptyDict)

\* a.get(key) or b.get(key)
GetEither(a, b, key) ==
    IF ~IsDict(a) THEN AttrErr
    ELSE IF Truthy(Get(a, key, None)) THEN Get(a, key, None)
    ELSE IF ~IsDict(b) THEN AttrErr
    ELSE Get(b, key, None)

\* [item.get("descriptor") for item in d.get(key, [])]
Descriptors(d, key) ==
    IF ~IsDict(d) THEN AttrErr
    ELSE LET items == Iterate(Get(d, key, List(<<>>)))
         IN  IF items.raised THEN TypeErr
             ELSE IF \E i \in 1..Len(items.value) : ~IsDict(items.value[i]) THEN AttrErr
             ELSE List([i \in 1..Len(items.value) |-> Get(items.value[i], "descriptor", None)])

\* _flatten_lesson
_flatten_lesson(lesson) ==
    IF ~IsDict(lesson) THEN Raise(OtherError("AttributeError"))
    ELSE
    LET instructor_led    == GetOrEmpty(lesson, "instructorLedData")
        media_data        == GetOrEmpty(lesson, "mediaData")
        training_activity == GetOrEmpty(lesson, "trainingActivityData")
        virtual_classroom == GetOrEmpty(instructor_led, "virtualClassroomData")
        in_person         == GetOrEmpty(instructor_led, "inPersonLedData")
    IN  Record([id                  |-> Get(lesson, "id", None),
                descriptor          |-> Get(lesson, "descriptor", None),
                description         |-> Get(lesson, "description", None),
                order               |-> Get(lesson, "order", None),
                required            |-> Get(lesson, "required", None),
                contentType         |-> GetPath(lesson, <<"contentType", "descriptor">>),
                duration            |-> GetEither(instructor_led, media_data, "duration"),
                contentURL          |-> GetPath(lesson, <<"externalContentData", "contentURL">>),
                instructors         |-> Descriptors(instructor_led, "instructors"),
                materials           |-> Descriptors(training_activity, "materials"),
                activityType        |-> GetPath(training_activity, <<"activityType", "descriptor">>),
                virtualClassroomURL |-> GetPath(virtual_classroom, <<"virtualClassroomURL">>),
                location            |-> GetPath(in_person, <<"adhocLocationName">>),
                trackAttendance     |-> GetEither(instructor_led, training_activity, "trackAttendance"),
                trackGrades         |-> GetEither(instructor_led, training_activity, "trackGrades")])

\* the fields of _flatten_content that read one key, or the descriptor of one
\* nested object
ContentPaths ==
    [id                         |-> <<"id">>,
     descriptor                 |-> <<"descriptor">>,
     description                |-> <<"description">>,
     contentNumber              |-> <<"contentNumber">>,
     contentURL                 |-> <<"contentURL">>,
     version                    |-> <<"version">>,
     createdOnDate              |-> <<"createdOnDate">>,
     averageRating              |-> <<"averageRating">>,
     ratingCount                |-> <<"ratingCount">>,
     popularity                 |-> <<"popularity">>,
     contentType                |-> <<"contentType", "descriptor">>,
     contentProvider            |-> <<"contentProvider", "descriptor">>,
     accessType                 |-> <<"accessType", "descriptor">>,
     deliveryMode               |-> <<"deliveryMode", "descriptor">>,
     skillLevel                 |-> <<"skillLevel", "descriptor">>,
     lifecycleStatus            |-> <<"lifecycleStatus", "descriptor">>,
     availabilityStatus         |-> <<"availabilityStatus", "descriptor">>,
     excludeFromRecommendations |-> <<"excludeFromRecommendations">>,
     excludeFromSearchAndBrowse |-> <<"excludeFromSearchAndBrowse">>]

\* the fields of _flatten_content that list the descriptors of a collection
ContentLists ==
    [learningCatalogs   |-> "learningCatalogs",
     languages          |-> "languages",
     skills             |-> "skills",
     topics             |-> "topics",
     securityCategories |-> "securityCategories",
     contactPersons     |-> "contactPersons"]

\* _flatten_content; lessons is the list of flattened lessons
_flatten_content(content, lessons) ==
    IF ~IsDict(content) THEN Raise(OtherError("AttributeError"))
    ELSE Record([k \in DOMAIN ContentPaths |-> GetPath(content, ContentPaths[k])]
                @@ [k \in DOMAIN ContentLists |-> Descriptors(content, ContentLists[k])]
                @@ [imageURL |-> GetPath(GetOrEmpty(content, "image"), <<"publicURL">>),
                    lessons  |-> lessons])

----------------------------------------------------------------------------
(* The gateway: function_app.py                                            *)

BearerPrefix == <<"b","e","a","r","e","r"," ">>

\* _extract_bearer_token: None, or the token as a str (possibly empty)
_extract_bearer_token(headers) ==
    LET auth_header == Or(Get(headers, "Authorization", None), Get(headers, "authorization", None))
    IN  IF ~Truthy(auth_header) THEN None
        ELSE IF StartsWith(Lower(auth_header.v), BearerPrefix)
        THEN Str(Strip(DropPrefix(auth_header.v, Len(BearerPrefix))))
        ELSE None

\* _json_response
HttpResponse(payload, status_code) == [status_code |-> status_code, body |-> payload]

NoResponse == [status_code |-> 0, body |-> None]

Unauthorized ==
    HttpResponse(Dict([error |-> Lit("Unauthorized"),
                       message |-> Lit("Missing or invalid bearer token")]), 401)

\* a range check that stops at 499 sends the backend's 5xx out as 502
FaultStatusClientOnly(status_code) ==
    IF status_code # NoStatus /\ status_code # 0 /\ 400 <= status_code /\ status_code < 500
    THEN status_code ELSE 502

\* the status of a backend fault (function_app.py 60)
FaultStatus(status_code) ==
    IF status_code # NoStatus /\ status_code # 0 /\ 400 <= status_code /\ status_code < 600
    THEN status_code ELSE 502

\* the except clauses of _handle_request (function_app.py 58-82)
FaultResponse(exc) ==
    CASE exc.type = "WorkdayError" ->
            HttpResponse(Dict([success |-> Bool(FALSE),
                               error   |-> Lit("WorkdayError"),
                               message |-> exc.message,
                               details |-> exc.payload]), FaultStatus(exc.status_code))
      [] exc.type = "ValueError" ->
            HttpResponse(Dict([success |-> Bool(FALSE),
                               error   |-> Lit("BadRequest"),
                               message |-> exc.message]), 400)
      [] OTHER ->
            HttpResponse(Dict([success |-> Bool(FALSE),
                               error   |-> Lit("InternalServerError"),
                               message |-> Lit("An unexpected error occurred.")]), 500)

\* the handler of book_leave up to its first backend call (function_app.py
\* 163-179): the day entries, or the exception raised
book_leave_validate(raw_body) ==
    IF raw_body = Invalid THEN Raise(ValueError("Request body must be valid JSON"))
    ELSE IF ~IsDict(raw_body) THEN Raise(OtherError("AttributeError"))
    ELSE
    LET body             == raw_body
        start_date       == Get(body, "startDate", None)
        end_date         == Get(body, "endDate", None)
        time_off_type_id == Get(body, "timeOffTypeId", None)
        quantity         == PyStr(Get(body, "quantity", Str(EightChars)))
        unit             == Get(body, "unit", Str(HoursWord))
        reason           == Get(body, "reason", Lit("Time off request"))
    IN  IF ~Truthy(start_date) \/ ~Truthy(end_date) \/ ~Truthy(time_off_type_id)
        THEN Raise(ValueError("startDate, endDate, and timeOffTypeId are required"))
        ELSE _create_days_array(start_date, end_date, quantity, unit, reason, time_off_type_id)

\* the loop of function_app.py 186-190 over the echoed days: an entry whose
\* quantity float() rejects is skipped
RECURSIVE EchoedTotal(_)
EchoedTotal(items) ==
    IF items = <<>> THEN 0
    ELSE LET q == PyFloat(Get(Head(items), "dailyQuantity", Num(<<"0">>)))
         IN  (IF q.ok THEN q.value ELSE 0) + EchoedTotal(Tail(items))

\* the sum of function_app.py 192 over the constructed day entries
RECURSIVE LocalTotal(_)
LocalTotal(items) ==
    IF items = <<>> THEN 0
    ELSE PyFloat(Get(Head(items), "dailyQuantity", Num(<<"0">>))).value + LocalTotal(Tail(items))

LocalTotalRaises(items) ==
    \E i \in 1..Len(items) : ~PyFloat(Get(items[i], "dailyQuantity", Num(<<"0">>))).ok

BppPath == "businessProcessParameters"

\* the handler of book_leave after the submission returned result
\* (function_app.py 183-205)
book_leave_payload(result, days_array) ==
    LET booked_days == Get(result, "days", None)
        details == [businessProcess   |-> GetPath(result, <<BppPath, "overallBusinessProcess", "descriptor">>),
                    status            |-> GetPath(result, <<BppPath, "overallStatus">>),
                    transactionStatus |-> GetPath(result, <<BppPath, "transactionStatus", "descriptor">>)]
        total == IF Truthy(booked_days) THEN EchoedTotal(booked_days.items)
                 ELSE LocalTotal(days_array.items)
    IN  IF Truthy(booked_days) /\ booked_days.t # "list"
        THEN Raise(OtherError(IF booked_days.t \in {"str", "dict"} THEN "AttributeError" ELSE "TypeError"))
        ELSE IF Truthy(booked_days) /\ \E i \in 1..Len(booked_days.items) : ~IsDict(booked_days.items[i])
        THEN Raise(OtherError("AttributeError"))
        ELSE IF ~Truthy(booked_days) /\ LocalTotalRaises(days_array.items)
        THEN Raise(Exc("ValueError", Msg("could not convert string to float", 0), NoStatus, None))
        ELSE IF \E k \in DOMAIN details : details[k] = AttrErr
        THEN Raise(OtherError("AttributeError"))
        ELSE Return(Dict(
            [success         |-> Bool(TRUE),
             message         |-> Lit("Time off request submitted successfully"),
             bookingDetails  |-> Dict([businessProcess   |-> details.businessProcess,
                                       status            |-> details.status,
                                       transactionStatus |-> details.transactionStatus,
                                       daysBooked        |-> Int_(Len(days_array.items)),
                                       totalQuantity     |-> Float(total)]),
             workdayResponse |-> result]))

\* the handler of change_business_title up to its first backend call
\* (function_app.py 212-217): the proposed title, or the exception raised
change_business_title_validate(raw_body) ==
    IF raw_body = Invalid THEN Raise(Exc("ValueError", Msg("invalid JSON", 0), NoStatus, None))
    ELSE IF ~IsDict(raw_body) THEN Raise(OtherError("AttributeError"))
    ELSE LET proposed_title == Get(raw_body, "proposedBusinessTitle", None)
         IN  IF ~Truthy(proposed_title)
             THEN Raise(ValueError("proposedBusinessTitle is required"))
             ELSE Return(proposed_title)

\* the handlers that call list methods one after the other, once the identity
\* lookup returned: the methods each calls, in the order of its code
\* (function_app.py 100-103, 234, 245, 256, 267, 278, 308-310)
RoutePlan ==
    [getLeaveBalances       |-> <<"balances", "eligibleAbsenceTypes", "leavesOfAbsence", "timeOffDetails">>,
     getDirectReports       |-> <<"directReports">>,
     getPaySlips            |-> <<"paySlips">>,
     getInboxTasks          |-> <<"inboxTasks">>,
     getLearningAssignments |-> <<"learningAssignments">>,
     getTimeOffEntries      |-> <<"timeOffEntries">>,
     requestLeave           |-> <<"eligibleAbsenceTypes", "balances", "timeOffDetails">>]

\* the client method behind each endpoint
MethodName ==
    [balances             |-> "get_leave_balances",
     eligibleAbsenceTypes |-> "get_eligible_absence_types",
     leavesOfAbsence      |-> "get_leaves_of_absence",
     timeOffDetails       |-> "get_time_off_details",
     timeOffEntries       |-> "get_time_off_entries",
     inboxTasks           |-> "get_inbox_tasks",
     directReports        |-> "get_direct_reports",
     paySlips             |-> "get_pay_slips",
     learningAssignments  |-> "get_learning_assignments"]

\* date.today() of _default_leave_dates
Today == Date(2025, 2, 27)

\* _default_leave_dates: tomorrow, twice
_default_leave_dates == <<Str(IsoFormat(NextDay(Today))), Str(IsoFormat(NextDay(Today)))>>

\* the handler of request_leave up to its first backend call (function_app.py
\* 294-304): the request parameters, or the exception raised
request_leave_validate(raw_body) ==
    LET body == IF raw_body = Invalid THEN EmptyDict ELSE raw_body
    IN  IF ~IsDict(body) THEN Raise(OtherError("AttributeError"))
        ELSE Return(Dict([startDate |-> Get(body, "startDate", _default_leave_dates[1]),
                          endDate   |-> Get(body, "endDate", _default_leave_dates[2]),
                          quantity  |-> Str(PyStr(Get(body, "quantity", Str(<<"1">>)))),
                          unit      |-> Get(body, "unit", Str(<<"D","a","y","s">>)),
                          reason    |-> Get(body, "reason", Lit("Vacation"))]))

\* the payload a list handler returns: params is what the handler took of the
\* request, results the lists its calls returned, in the order of the calls
RoutePayload(rt, params, results, workday_id) ==
    CASE rt = "getLeaveBalances" ->
            Dict([success              |-> Bool(TRUE),
                  leaveBalances        |-> results[1],
                  eligibleAbsenceTypes |-> results[2],
                  leavesOfAbsence      |-> results[3],
                  bookedTimeOff        |-> results[4]])
      [] rt = "getDirectReports" ->
            Dict([success |-> Bool(TRUE), directReports |-> results[1]])
      [] rt = "getPaySlips" ->
            Dict([success |-> Bool(TRUE), paySlips |-> results[1]])
      [] rt = "getInboxTasks" ->
            Dict([success |-> Bool(TRUE), tasks |-> results[1]])
      [] rt = "getLearningAssignments" ->
            Dict([success |-> Bool(TRUE), assignments |-> results[1],
                  total |-> Int_(Len(results[1].items))])
      [] rt = "getTimeOffEntries" ->
            Dict([success |-> Bool(TRUE), timeOffEntries |-> results[1]])
      [] rt = "requestLeave" ->
            Dict([success              |-> Bool(TRUE),
                  requestParameters    |-> params,
                  eligibleAbsenceTypes |-> results[1],
                  leaveBalances        |-> results[2],
                  bookedTimeOff        |-> results[3],
                  workdayId            |-> Str(workday_id),
                  bookingGuidance      |-> Lit("bookingGuidance")])   \* the constant of lines 325-335

\* parse_qs(query, keep_blank_values=False).get(key, []): the values given
\* for key that are not blank, in their order; query is the sequence of the
\* key and value pairs of the URL
RECURSIVE QueryValues(_, _)
QueryValues(query, key) ==
    IF query = <<>> THEN <<>>
    ELSE (IF Head(query)[1] = key /\ Head(query)[2] # <<>> THEN <<Str(Head(query)[2])>> ELSE <<>>)
         \o QueryValues(Tail(query), key)

\* the handler of search_learning_content up to its first backend call
\* (function_app.py 402-405); items, lessons_raw and enriched_content are
\* the handler's variables of the loop that follows
search_learning_content_parse(query) ==
    Return([skills |-> QueryValues(query, "skills"), topics |-> QueryValues(query, "topics"),
            items |-> <<>>, lessons_raw |-> <<>>, enriched_content |-> <<>>])

\* [_flatten_lesson(lesson) for lesson in lessons_raw] (function_app.py 417)
FlattenLessons(lessons_raw) ==
    IF Iterate(lessons_raw).raised THEN Iterate(lessons_raw)
    ELSE Comprehension([i \in 1..Len(Iterate(lessons_raw).value) |->
                            _flatten_lesson(Iterate(lessons_raw).value[i])])

\* function_app.py 416: what the handler takes for the lessons of an item
\* whose fetch raised WorkdayError
LessonsOnFailure == List(<<>>)

\* one iteration of the loop once the fetch returned or raised (function_app.py
\* 414-418): the enriched item, or the exception raised
Enrich(item, lessons_raw) ==
    IF FlattenLessons(lessons_raw).raised THEN FlattenLessons(lessons_raw)
    ELSE _flatten_content(item, FlattenLessons(lessons_raw).value)

\* the payload of search_learning_content (function_app.py 420)
SearchPayload(enriched_content) ==
    Dict([success |-> Bool(TRUE), content |-> List(enriched_content),
          total |-> Int_(Len(enriched_content))])

----------------------------------------------------------------------------
(* The inputs drawn: requests and backend replies                          *)

MaxSpan == 2        \* the dates drawn lie 0..MaxSpan days after a base date

RECURSIVE AddDays(_, _)
AddDays(dt, n) == IF n = 0 THEN dt ELSE AddDays(NextDay(dt), n - 1)

PlainHeader == Dict([Authorization |-> Str(<<"B","e","a","r","e","r"," ","t","1">>)])

Headers ==
    { EmptyDict,
      Dict([Authorization |-> Str(<<>>)]),
      Dict([Authorization |-> Str(<<"B","e","a","r","e","r"," ","t","1">>)]),
      Dict([authorization |-> Str(<<"b","e","a","r","e","r"," ","t","2"," ">>)]),
      Dict([Authorization |-> Str(<<"B","e","a","r","e","r"," ">>)]),
      Dict([Authorization |-> Str(<<"B","E","A","R","E","R"," "," "," ">>)]),
      Dict([Authorization |-> Str(<<"B","e","a","r","e","r">>)]),
      Dict([Authorization |-> Str(<<"B","a","s","i","c"," ","t","1">>)]) }

DateBases == {Date(2024, 2, 27), Date(2025, 2, 27), Date(2025, 12, 30)}

GoodDatePairs ==
    { <<Str(IsoFormat(AddDays(b, i))), Str(IsoFormat(AddDays(b, j)))>> :
        b \in DateBases, i \in 0..MaxSpan, j \in 0..MaxSpan }

OddDatePairs ==
    { <<Str(<<"2","0","2","5","-","2","-","9">>), Str(<<"2","0","2","5","-","2","-","1","0">>)>>,
      <<Absent, Str(<<"2","0","2","5","-","0","2","-","1","0">>)>>,
      <<Str(<<"2","0","2","5","-","0","2","-","1","0">>), Absent>>,
      <<Str(<<>>), Str(<<"2","0","2","5","-","0","2","-","1","0">>)>>,
      <<Str(<<"2","0","2","5","-","0","2","-","1","0">>), None>>,
      <<Num(<<"2","0","2","5","0","2","1","0">>), Str(<<"2","0","2","5","-","0","2","-","1","0">>)>>,
      <<Str(<<"2","0","2","5","-","0","2","-","1","0">>), Num(<<"2","0","2","5","0","2","1","0">>)>>,
      <<Str(<<"2","0","2","5","-","1","3","-","0","1">>), Str(<<"2","0","2","5","-","0","2","-","1","0">>)>>,
      <<Str(<<"2","0","2","5","-","0","2","-","1","0">>), Str(<<"2","0","2","5","-","0","2","-","3","0">>)>>,
      <<Str(<<"1","0","/","0","2","/","2","0","2","5">>), Str(<<"2","0","2","5","-","0","2","-","1","0">>)>> }

Quantities == {Absent, Str(<<"4">>), Num(<<"4">>), Str(<<"4",".","5">>), Str(<<"a","b","c">>), None}

Units == {Absent, Str(<<"D","a","y","s">>), Str(<<"d","a","y","s">>), Str(<<"D","A","Y","S">>), Str(HoursWord), Str(<<"d","a","y">>), Num(<<"5">>)}

\* a body of bookLeave
LeaveBody(dp, tt, q, u) ==
    Dict(Field("startDate", dp[1]) @@ Field("endDate", dp[2]) @@ Field("timeOffTypeId", tt)
         @@ Field("quantity", q) @@ Field("unit", u))

PTO == Str(<<"P","T","O">>)

\* one day, the longest range and a reversed range
FewDatePairs ==
    { <<Str(IsoFormat(AddDays(Date(2025, 2, 27), i))), Str(IsoFormat(AddDays(Date(2025, 2, 27), j)))>> :
        i \in {0, MaxSpan}, j \in {0, MaxSpan} }

\* every range with two quantity/unit pairs, every quantity and unit with a
\* few ranges, and the odd dates and the missing type with the defaults
BookLeaveBodies ==
    { LeaveBody(dp, PTO, qu[1], qu[2]) :
        dp \in GoodDatePairs, qu \in {<<Absent, Absent>>, <<Num(<<"4">>), Str(<<"D","a","y","s">>)>>} }
    \cup { LeaveBody(dp, PTO, q, u) : dp \in FewDatePairs, q \in Quantities, u \in Units }
    \cup { LeaveBody(dp, PTO, Absent, Absent) : dp \in OddDatePairs }
    \cup { LeaveBody(dp, tt, Absent, Absent) : dp \in FewDatePairs, tt \in {Absent, Str(<<>>)} }
    \cup {Invalid, None, List(<<>>)}

SampleLeaveBodies ==
    { LeaveBody(dp, PTO, Absent, Absent) : dp \in FewDatePairs } \cup {Invalid}

TitleBodies ==
    { Invalid, None, EmptyDict,
      Dict([proposedBusinessTitle |-> Str(<<>>)]),
      Dict([proposedBusinessTitle |-> Str(<<"C","T","O">>)]) }

\* report entries of the identity lookup
U1 == <<"u","1">>
U2 == <<"u","2">>
W1 == <<"w","1">>
LookupEntries ==
    { Dict([Current_User |-> Str(U1), workdayID |-> Str(W1)]),
      Dict([current_user |-> Str(U2), workdayId |-> Str(W1)]),
      Dict([Current_User |-> Str(<<>>), current_user |-> Str(U2), workdayID |-> Str(W1)]),
      Dict([Current_User |-> Num(<<"7">>), workdayID |-> Num(<<"9">>)]),
      Dict([Current_User |-> Str(U1)]),
      Dict([Current_User |-> Str(U1), workdayID |-> Str(<<>>)]),
      Dict([Current_User |-> Str(U1), workdayID |-> Str(<<>>), workdayId |-> Str(<<>>)]),
      Dict([workdayID |-> Str(W1)]) }

LookupDocs ==
    { Dict([Report_Entry |-> List(<<e>>)]) : e \in LookupEntries }
    \cup { Dict([Report_Entry |-> List(<<>>)]), EmptyDict, List(<<>>),
           Dict([Report_Entry |-> Dict([Current_User |-> Str(U1)])]) }

ErrorDoc == Dict([error |-> Str(<<"d","e","n","i","e","d">>)])

\* replies that carry no result of the call: no response at all, error
\* statuses, an empty body, a text body, a status that is no 2xx and no error
FaultReplies ==
    { Unreachable,
      JsonReply(404, ErrorDoc),
      TextReply(500, <<"o","o","p","s">>),
      EmptyReply(503, TRUE),
      EmptyReply(401, FALSE),
      JsonReply(304, ErrorDoc),
      EmptyReply(204, FALSE),
      EmptyReply(304, FALSE) }

LookupReplies ==
    { JsonReply(200, d) : d \in LookupDocs }
    \cup { JsonReply(304, Dict([Report_Entry |-> List(<<e>>)])) :
             e \in {Dict([Current_User |-> Str(U1), workdayID |-> Str(W1)])} }
    \cup FaultReplies

EchoDay(q) == Dict(Field("dailyQuantity", q))

SubmitDocs ==
    { EmptyDict,
      Dict([days |-> List(<<>>)]),
      Dict([days |-> List(<<EchoDay(Str(<<"8">>)), EchoDay(Str(<<"a","b","c">>))>>)]),
      Dict([days |-> List(<<EchoDay(Num(<<"4">>)), EchoDay(Absent), EchoDay(None)>>)]),
      Dict([days |-> List(<<Num(<<"1">>)>>)]),
      Dict([businessProcessParameters |->
               Dict([overallStatus |-> Str(<<"O","K">>),
                     overallBusinessProcess |-> Dict([descriptor |-> Str(<<"B","P">>)])])]),
      Dict([businessProcessParameters |-> None]) }

SubmitReplies == { JsonReply(200, d) : d \in SubmitDocs } \cup FaultReplies

TitleReplies == { JsonReply(200, EmptyDict), JsonReply(201, ErrorDoc), JsonReply(200, List(<<>>)) } \cup FaultReplies

FullProfile ==
    Dict([id |-> Str(W1), workerId |-> Str(U1),
          person |-> Dict([email |-> Str(<<"a","@","b">>)]),
          primaryJob |-> Dict([businessTitle |-> Str(<<"C","T","O">>),
                               location |-> Dict([country |-> Dict([descriptor |-> Str(<<"N","L">>)])])])])

ProfileDocs ==
    { Dict([data |-> List(<<FullProfile>>)]),
      Dict([data |-> List(<<EmptyDict>>)]),
      Dict([data |-> List(<<Dict([person |-> None])>>)]),
      Dict([data |-> List(<<>>)]),
      Dict([data |-> List(<<None>>)]),
      EmptyDict }

ProfileReplies == { JsonReply(200, d) : d \in ProfileDocs } \cup FaultReplies

\* one backend record with the keys the list methods read
RichItem ==
    Dict([id |-> Str(<<"i","1">>), descriptor |-> Str(<<"D">>), date |-> Str(<<"2","0","2","5">>),
          quantity |-> Num(<<"3">>), comment |-> None,
          status |-> Dict([descriptor |-> Str(<<"O","K">>)]),
          unit |-> Dict([descriptor |-> Str(HoursWord)]),
          absencePlan |-> Dict([id |-> Str(<<"p","1">>)]),
          timeOff |-> Dict([plan |-> Dict([descriptor |-> Str(<<"P">>)])]),
          startAndEndTimeRequired |-> Bool(TRUE),
          overdue |-> Num(<<"1">>), required |-> Str(<<"0">>), workdayID |-> Str(W1)])

\* a record whose nested object is null
NullNested == Dict([status |-> None, absencePlan |-> None])

\* the bodies of a list reply: records under the key, no record, the key
\* absent or null or no list, a body that is no object
ListDocs(key) ==
    { Dict(key :> List(<<RichItem>>)),
      Dict(key :> List(<<EmptyDict, RichItem>>)),
      Dict(key :> List(<<NullNested>>)),
      Dict(key :> List(<<>>)),
      Dict(key :> None),
      Dict(key :> Num(<<"5">>)),
      EmptyDict,
      List(<<RichItem>>) }

ListReplies(kind) ==
    { JsonReply(200, d) : d \in ListDocs(CollectionKey(kind)) }
    \cup { JsonReply(304, Dict(CollectionKey(kind) :> List(<<RichItem>>))) }
    \cup FaultReplies

\* the bodies of requestLeave
RequestLeaveBodies ==
    { Invalid, None, EmptyDict,
      Dict([startDate |-> Str(<<"2","0","2","5","-","0","3","-","0","1">>), quantity |-> Num(<<"2">>)]) }

\* the query of searchLearningContent: pairs of a key and a value
Queries ==
    { <<>>,
      << <<"skills", <<"p","y">>>> >>,
      << <<"skills", <<"p","y">>>>, <<"topics", <<"a","i">>>>, <<"skills", <<>>>>, <<"page", <<"2">>>> >> }

Content1 ==
    Dict([id |-> Str(<<"c","1">>), descriptor |-> Str(<<"C">>),
          contentType |-> Dict([descriptor |-> Str(<<"V">>)]),
          skills |-> List(<<Dict([descriptor |-> Str(<<"p","y">>)]), EmptyDict>>),
          image |-> None])
Content2 == Dict([id |-> Str(<<"c","2">>)])

ContentDocs ==
    { Dict([data |-> List(<<Content1>>)]),
      Dict([data |-> List(<<Content1, Content2>>)]),
      Dict([data |-> List(<<Content2, Dict([topics |-> None])>>)]),
      Dict([data |-> List(<<Content2, Str(<<"x">>)>>)]),
      Dict([data |-> List(<<>>)]),
      Dict([data |-> None]),
      EmptyDict,
      List(<<Content2>>) }

ContentReplies ==
    { JsonReply(200, d) : d \in ContentDocs } \cup FaultReplies

Lesson1 ==
    Dict([id |-> Str(<<"l","1">>), order |-> Num(<<"1">>),
          instructorLedData |-> Dict([duration |-> Num(<<"6","0">>),
                                      instructors |-> List(<<Dict([descriptor |-> Str(<<"A">>)])>>)]),
          mediaData |-> None])

LessonDocs ==
    { Dict([data |-> List(<<Lesson1>>)]),
      Dict([data |-> List(<<EmptyDict, Lesson1>>)]),
      Dict([data |-> List(<<Dict([contentType |-> None])>>)]),
      Dict([data |-> List(<<>>)]),
      Dict([data |-> None]),
      EmptyDict,
      List(<<Lesson1>>) }

LessonReplies ==
    { JsonReply(200, d) : d \in LessonDocs }
    \cup { JsonReply(304, Dict([data |-> List(<<Lesson1>>)])) }
    \cup FaultReplies

----------------------------------------------------------------------------
(* The gateway as a state machine. A request is received and authenticated *)
(* and its handler runs to its first backend call (Begin); each backend    *)
(* call is one step, its reply drawn from the replies above; the response  *)
(* is returned when the handler ends or raises.                            *)

NoReply == [reached |-> FALSE, status_code |-> 0, json_ctype |-> FALSE, text |-> <<>>, doc |-> Invalid]
NoRet == [method |-> "none", out |-> Return(None)]
Ret(method, out) == [method |-> method, out |-> out]

Init ==
    /\ pc = "idle"
    /\ route = "none"
    /\ request = [headers |-> EmptyDict, body |-> Invalid, query |-> <<>>]
    /\ client = None
    /\ locals = None
    /\ calls = <<>>
    /\ reply = NoReply
    /\ response = NoResponse
    /\ ret = NoRet

\* a check for None alone lets the empty token through
TokenMissingNoneOnly(token) == token = None

\* function_app.py 51: the token is missing
TokenMissing(token) == ~Truthy(token)

\* the first backend call of a handler: the content search of
\* search_learning_content, the identity lookup of every other
FirstCall(rt) == IF rt = "searchLearningContent" THEN "search" ELSE "lookup"

\* _handle_request up to the handler's first backend call; validated is the
\* outcome of the handler's own checks, read only once a client exists
Begin(rt, req, validated) ==
    /\ route' = rt
    /\ request' = req
    /\ calls' = <<>>
    /\ reply' = NoReply
    /\ ret' = NoRet
    /\ LET token == _extract_bearer_token(req.headers)
       IN  IF TokenMissing(token)
           THEN /\ client' = None
                /\ locals' = None
                /\ response' = Unauthorized
                /\ pc' = "done"
           ELSE /\ client' = NewClient(token.v)
                /\ IF validated.raised
                   THEN /\ locals' = None
                        /\ response' = FaultResponse(validated.exc)
                        /\ pc' = "done"
                   ELSE /\ locals' = validated.value
                        /\ response' = NoResponse
                        /\ pc' = FirstCall(rt)

\* get_worker: the handler calls no backend before transform_worker_profile
get_worker ==
    /\ pc = "idle"
    /\ \E h \in Headers :
        Begin("getWorker", [headers |-> h, body |-> Invalid, query |-> <<>>], Return(None))

\* every body with the plain header, every header with a few bodies
book_leave ==
    /\ pc = "idle"
    /\ \E h \in Headers, b \in BookLeaveBodies :
        /\ h = PlainHeader \/ b \in SampleLeaveBodies
        /\ Begin("bookLeave", [headers |-> h, body |-> b, query |-> <<>>], book_leave_validate(b))

change_business_title_ ==
    /\ pc = "idle"
    /\ \E h \in Headers, b \in TitleBodies :
        Begin("changeBusinessTitle", [headers |-> h, body |-> b, query |-> <<>>], change_business_title_validate(b))

\* the end of a handler step: res is what the client method gave, out the
\* handler's payload or the exception that leaves the handler
End(method, res, r, out) ==
    /\ client' = res.client
    /\ calls' = calls \o res.issued
    /\ reply' = r
    /\ ret' = Ret(method, res.out)
    /\ response' = IF out.raised THEN FaultResponse(out.exc) ELSE HttpResponse(out.value, 200)
    /\ pc' = "done"
    /\ UNCHANGED <<route, request, locals>>

\* client.get_user_context() of a handler: the identity lookup
Lookup ==
    /\ pc = "lookup"
    /\ \E r \in LookupReplies :
        LET res == get_user_context(client, r)
        IN  IF res.out.raised
            THEN End("get_user_context", res, r, res.out)
            ELSE /\ client' = res.client
                 /\ calls' = calls \o res.issued
                 /\ reply' = r
                 /\ ret' = Ret("get_user_context", res.out)
                 /\ pc' = "op"
                 /\ UNCHANGED <<route, request, locals, response>>

\* get_worker after the lookup inside get_worker_profile
get_worker_profile_step ==
    /\ pc = "op" /\ route = "getWorker"
    /\ \E r \in ProfileReplies :
        LET res == transform_worker_profile(client, NoReply, r)
        IN  End("transform_worker_profile", res, r, res.out)

\* book_leave from the submission on (function_app.py 181-205)
request_time_off_step ==
    /\ pc = "op" /\ route = "bookLeave"
    /\ \E r \in SubmitReplies :
        LET res == request_time_off(client, client._user_context.workday_id, locals, r)
        IN  End("request_time_off", res, r,
                IF res.out.raised THEN res.out ELSE book_leave_payload(res.out.value, locals))

\* change_business_title from the submission on (function_app.py 219-224)
change_business_title_step ==
    /\ pc = "op" /\ route = "changeBusinessTitle"
    /\ \E r \in TitleReplies :
        LET res == change_business_title(client, client._user_context.workday_id, locals, r)
        IN  End("change_business_title", res, r,
                IF res.out.raised THEN res.out
                ELSE Return(Dict([success       |-> Bool(TRUE),
                                  message       |-> Lit("Business title change request submitted successfully"),
                                  changeDetails |-> res.out.value])))

\* a handler went on past a backend call: res is what the client method gave
Advance(method, res, r, new_locals, new_pc) ==
    /\ client' = res.client
    /\ calls' = calls \o res.issued
    /\ reply' = r
    /\ ret' = Ret(method, res.out)
    /\ locals' = new_locals
    /\ pc' = new_pc
    /\ UNCHANGED <<route, request, response>>

\* a handler ended after a backend call: out is its payload or the exception
\* that leaves it
Finish(method, res, r, new_locals, out) ==
    /\ client' = res.client
    /\ calls' = calls \o res.issued
    /\ reply' = r
    /\ ret' = Ret(method, res.out)
    /\ locals' = new_locals
    /\ response' = IF out.raised THEN FaultResponse(out.exc) ELSE HttpResponse(out.value, 200)
    /\ pc' = "done"
    /\ UNCHANGED <<route, request>>

\* the variables of a list handler before its first call: what it took of
\* the request, and the lists its calls returned so far
ListLocals(validated) ==
    IF validated.raised THEN validated
    ELSE Return([params |-> validated.value, results |-> <<>>])

get_leave_balances_ ==
    /\ pc = "idle"
    /\ \E h \in Headers :
        Begin("getLeaveBalances", [headers |-> h, body |-> Invalid, query |-> <<>>], ListLocals(Return(None)))

get_direct_reports_ ==
    /\ pc = "idle"
    /\ \E h \in Headers :
        Begin("getDirectReports", [headers |-> h, body |-> Invalid, query |-> <<>>], ListLocals(Return(None)))

get_pay_slips_ ==
    /\ pc = "idle"
    /\ \E h \in Headers :
        Begin("getPaySlips", [headers |-> h, body |-> Invalid, query |-> <<>>], ListLocals(Return(None)))

get_inbox_tasks_ ==
    /\ pc = "idle"
    /\ \E h \in Headers :
        Begin("getInboxTasks", [headers |-> h, body |-> Invalid, query |-> <<>>], ListLocals(Return(None)))

get_learning_assignments_ ==
    /\ pc = "idle"
    /\ \E h \in Headers :
        Begin("getLearningAssignments", [headers |-> h, body |-> Invalid, query |-> <<>>], ListLocals(Return(None)))

get_time_off_entries_ ==
    /\ pc = "idle"
    /\ \E h \in Headers :
        Begin("getTimeOffEntries", [headers |-> h, body |-> Invalid, query |-> <<>>], ListLocals(Return(None)))

request_leave ==
    /\ pc = "idle"
    /\ \E h \in Headers, b \in RequestLeaveBodies :
        Begin("requestLeave", [headers |-> h, body |-> b, query |-> <<>>],
              ListLocals(request_leave_validate(b)))

\* a list method of a list handler gave res: it raised and the handler ends,
\* or it returned and the handler goes on to its next call or returns its
\* payload
ListReturned(kind, r, res) ==
    IF res.out.raised
    THEN Finish(MethodName[kind], res, r, locals, res.out)
    ELSE IF Len(locals.results) + 1 < Len(RoutePlan[route])
    THEN Advance(MethodName[kind], res, r,
                 [locals EXCEPT !.results = Append(@, res.out.value)], "op")
    ELSE Finish(MethodName[kind], res, r,
                [locals EXCEPT !.results = Append(@, res.out.value)],
                Return(RoutePayload(route, locals.params, Append(locals.results, res.out.value),
                                    client._user_context.workday_id)))

\* the next call of a list handler is the list method of kind
ListStep(kind) ==
    /\ route \in DOMAIN RoutePlan
    /\ Len(locals.results) < Len(RoutePlan[route])
    /\ RoutePlan[route][Len(locals.results) + 1] = kind
    /\ \E r \in ListReplies(kind) :
        ListReturned(kind, r, ListMethod(kind, client, Str(client._user_context.workday_id), NoReply, r))

get_leave_balances_step ==
    /\ pc = "op"
    /\ ListStep("balances")

get_eligible_absence_types_step ==
    /\ pc = "op"
    /\ ListStep("eligibleAbsenceTypes")

get_leaves_of_absence_step ==
    /\ pc = "op"
    /\ ListStep("leavesOfAbsence")

get_time_off_details_step ==
    /\ pc = "op"
    /\ ListStep("timeOffDetails")

get_time_off_entries_step ==
    /\ pc = "op"
    /\ ListStep("timeOffEntries")

get_inbox_tasks_step ==
    /\ pc = "op"
    /\ ListStep("inboxTasks")

get_direct_reports_step ==
    /\ pc = "op"
    /\ ListStep("directReports")

get_pay_slips_step ==
    /\ pc = "op"
    /\ ListStep("paySlips")

get_learning_assignments_step ==
    /\ pc = "op"
    /\ ListStep("learningAssignments")


search_learning_content_ ==
    /\ pc = "idle"
    /\ \E h \in Headers, q \in Queries :
        Begin("searchLearningContent", [headers |-> h, body |-> Invalid, query |-> q],
              search_learning_content_parse(q))

\* the loop of function_app.py 411-418 reaches an item: item.get("id") of an
\* item that is no dict raises before the fetch is issued
ItemRaises(items, i) == i <= Len(items) /\ ~IsDict(items[i])

\* the content search and the handler up to the first lessons fetch
\* (function_app.py 407-413)
search_learning_content_step ==
    /\ pc = "search"
    /\ \E r \in ContentReplies :
        LET res == search_learning_content(client, locals.skills, locals.topics, r)
        IN  IF res.out.raised
            THEN Finish("search_learning_content", res, r, locals, res.out)
            ELSE IF Iterate(Get(res.out.value, "data", List(<<>>))).raised
            THEN Finish("search_learning_content", res, r, locals,
                        Iterate(Get(res.out.value, "data", List(<<>>))))
            ELSE IF ItemRaises(Iterate(Get(res.out.value, "data", List(<<>>))).value, 1)
            THEN Finish("search_learning_content", res, r,
                        [locals EXCEPT !.items = Iterate(Get(res.out.value, "data", List(<<>>))).value],
                        Raise(OtherError("AttributeError")))
            ELSE IF Iterate(Get(res.out.value, "data", List(<<>>))).value = <<>>
            THEN Finish("search_learning_content", res, r, locals, Return(SearchPayload(<<>>)))
            ELSE Advance("search_learning_content", res, r,
                         [locals EXCEPT !.items = Iterate(Get(res.out.value, "data", List(<<>>))).value],
                         "lessons")

\* the lessons fetch of the next item and the handler up to the fetch after
\* it, or to its end (function_app.py 413-420)
get_content_lessons_step ==
    /\ pc = "lessons"
    /\ \E r \in LessonReplies :
        LET i   == Len(locals.enriched_content) + 1
            res == get_content_lessons(client, Get(locals.items[i], "id", None), r)
            raw == IF res.out.raised THEN LessonsOnFailure ELSE res.out.value
            new == [locals EXCEPT !.lessons_raw = Append(@, raw)]
        IN  IF Enrich(locals.items[i], raw).raised
            THEN Finish("get_content_lessons", res, r, new, Enrich(locals.items[i], raw))
            ELSE IF ItemRaises(locals.items, i + 1)
            THEN Finish("get_content_lessons", res, r,
                        [new EXCEPT !.enriched_content = Append(@, Enrich(locals.items[i], raw).value)],
                        Raise(OtherError("AttributeError")))
            ELSE IF i = Len(locals.items)
            THEN Finish("get_content_lessons", res, r,
                        [new EXCEPT !.enriched_content = Append(@, Enrich(locals.items[i], raw).value)],
                        Return(SearchPayload(Append(locals.enriched_content, Enrich(locals.items[i], raw).value))))
            ELSE Advance("get_content_lessons", res, r,
                         [new EXCEPT !.enriched_content = Append(@, Enrich(locals.items[i], raw).value)],
                         "lessons")

\* the response is returned; the instance and the handler's state are dropped
Respond ==
    /\ pc = "done"
    /\ pc' = "idle"
    /\ route' = "none"
    /\ request' = [headers |-> EmptyDict, body |-> Invalid, query |-> <<>>]
    /\ client' = None
    /\ locals' = None
    /\ calls' = <<>>
    /\ reply' = NoReply
    /\ response' = NoResponse
    /\ ret' = NoRet

Next ==
    \/ get_worker
    \/ book_leave
    \/ change_business_title_
    \/ Lookup
    \/ get_worker_profile_step
    \/ request_time_off_step
    \/ change_business_title_step
    \/ get_leave_balances_
    \/ get_direct_reports_
    \/ get_pay_slips_
    \/ get_inbox_tasks_
    \/ get_learning_assignments_
    \/ get_time_off_entries_
    \/ request_leave
    \/ search_learning_content_
    \/ get_leave_balances_step
    \/ get_eligible_absence_types_step
    \/ get_leaves_of_absence_step
    \/ get_time_off_details_step
    \/ get_time_off_entries_step
    \/ get_inbox_tasks_step
    \/ get_direct_reports_step
    \/ get_pay_slips_step
    \/ get_learning_assignments_step
    \/ search_learning_content_step
    \/ get_content_lessons_step
    \/ Respond

Spec == Init /\ [][Next]_vars

----------------------------------------------------------------------------
(* One WorkdayClient instance whose methods are called in any order, any   *)
(* number of times, each backend call answered by any reply.               *)

MaxCalls == 3       \* the backend calls one instance issues

InitClient ==
    /\ pc = "client"
    /\ route = "none"
    /\ request = [headers |-> EmptyDict, body |-> Invalid, query |-> <<>>]
    /\ client = NewClient(<<"t","1">>)
    /\ locals = None
    /\ calls = <<>>
    /\ reply = NoReply
    /\ response = NoResponse
    /\ ret = NoRet

\* a method returned or raised; locals counts the calls it issued
Called(method, res) ==
    /\ Len(calls \o res.issued) <= MaxCalls
    /\ client' = res.client
    /\ calls' = calls \o res.issued
    /\ ret' = Ret(method, res.out)
    /\ locals' = Int_(Len(res.issued))
    /\ UNCHANGED <<pc, route, request, reply, response>>

\* the replies drawn for a call that a cache may spare
LookupRepliesFor(c) == IF ContextCached(c) \/ ProfileCached(c) THEN {NoReply} ELSE LookupReplies
ProfileRepliesFor(c) == IF ProfileCached(c) THEN {NoReply} ELSE ProfileReplies

call_get_user_context ==
    /\ pc = "client"
    /\ \E r \in (IF ContextCached(client) THEN {NoReply} ELSE LookupReplies) : Called("get_user_context", get_user_context(client, r))

call_get_worker_profile ==
    /\ pc = "client"
    /\ \E r1 \in LookupRepliesFor(client), r2 \in ProfileRepliesFor(client) :
        Called("get_worker_profile", get_worker_profile(client, r1, r2))

call_transform_worker_profile ==
    /\ pc = "client"
    /\ \E r1 \in LookupRepliesFor(client), r2 \in ProfileRepliesFor(client) :
        Called("transform_worker_profile", transform_worker_profile(client, r1, r2))

NextClient ==
    \/ call_get_user_context
    \/ call_get_worker_profile
    \/ call_transform_worker_profile

SpecClient == InitClient /\ [][NextClient]_vars

----------------------------------------------------------------------------
(* The record normalizers, each applied to one backend record              *)

\* backend records: without any field, with nested objects that are empty,
\* with values, with a nested object that is null
BackendRecords ==
    { EmptyDict,
      Dict([absencePlan |-> EmptyDict, unit |-> EmptyDict, status |-> EmptyDict, timeOff |-> EmptyDict]),
      Dict([timeOff |-> Dict([plan |-> EmptyDict]), timeOffRequest |-> EmptyDict, employee |-> EmptyDict]),
      Dict([primaryJob |-> Dict([location |-> Dict([country |-> EmptyDict])]), person |-> EmptyDict]),
      Dict([instructorLedData |-> Dict([virtualClassroomData |-> EmptyDict]),
            trainingActivityData |-> Dict([activityType |-> EmptyDict]), contentType |-> EmptyDict]),
      Dict([image |-> EmptyDict, contentProvider |-> EmptyDict, skillLevel |-> EmptyDict]),
      RichItem, NullNested, FullProfile, Lesson1, Content1, Content2,
      Dict([topics |-> None]) }

InitRecords ==
    /\ pc = "records"
    /\ route = "none"
    /\ request = [headers |-> EmptyDict, body |-> Invalid, query |-> <<>>]
    /\ client = NewClient(<<"t","1">>)
    /\ locals \in BackendRecords
    /\ calls = <<>>
    /\ reply = NoReply
    /\ response = NoResponse
    /\ ret = NoRet

\* a normalizer was applied to the record
Normalized(method, out) ==
    /\ ret' = Ret(method, out)
    /\ UNCHANGED <<pc, route, request, client, locals, calls, reply, response>>

get_leave_balances_record ==
    /\ pc = "records"
    /\ Normalized("get_leave_balances", ItemRecord("balances", locals))

get_eligible_absence_types_record ==
    /\ pc = "records"
    /\ Normalized("get_eligible_absence_types", ItemRecord("eligibleAbsenceTypes", locals))

get_leaves_of_absence_record ==
    /\ pc = "records"
    /\ Normalized("get_leaves_of_absence", ItemRecord("leavesOfAbsence", locals))

get_time_off_details_record ==
    /\ pc = "records"
    /\ Normalized("get_time_off_details", ItemRecord("timeOffDetails", locals))

get_time_off_entries_record ==
    /\ pc = "records"
    /\ Normalized("get_time_off_entries", ItemRecord("timeOffEntries", locals))

get_inbox_tasks_record ==
    /\ pc = "records"
    /\ Normalized("get_inbox_tasks", ItemRecord("inboxTasks", locals))

get_direct_reports_record ==
    /\ pc = "records"
    /\ Normalized("get_direct_reports", ItemRecord("directReports", locals))

get_pay_slips_record ==
    /\ pc = "records"
    /\ Normalized("get_pay_slips", ItemRecord("paySlips", locals))

get_learning_assignments_record ==
    /\ pc = "records"
    /\ Normalized("get_learning_assignments", ItemRecord("learningAssignments", locals))

\* transform_worker_profile of an instance whose cached profile is the record
transform_worker_profile_record ==
    /\ pc = "records"
    /\ Normalized("transform_worker_profile",
                  transform_worker_profile([client EXCEPT !._worker_profile_cache = locals],
                                           NoReply, NoReply).out)

_flatten_lesson_record ==
    /\ pc = "records"
    /\ Normalized("_flatten_lesson", _flatten_lesson(locals))

_flatten_content_record ==
    /\ pc = "records"
    /\ Normalized("_flatten_content", _flatten_content(locals, List(<<>>)))

NextRecords ==
    \/ get_leave_balances_record
    \/ get_eligible_absence_types_record
    \/ get_leaves_of_absence_record
    \/ get_time_off_details_record
    \/ get_time_off_entries_record
    \/ get_inbox_tasks_record
    \/ get_direct_reports_record
    \/ get_pay_slips_record
    \/ get_learning_assignments_record
    \/ transform_worker_profile_record
    \/ _flatten_lesson_record
    \/ _flatten_content_record

SpecRecords == InitRecords /\ [][NextRecords]_vars

----------------------------------------------------------------------------
(* Invocations of the gateway in flight at the same time, as the threads   *)
(* of one worker process run them. Every variable holds one value per      *)
(* invocation: the locals req, client, context_ids and the response of     *)
(* its own _handle_request frame. client maps an instance to its fields.   *)
(* The backend answers a call for the account of the credential it         *)
(* carries.                                                                *)

MaxInvocations == 2      \* the invocations in flight at the same time
Invocations == 1..MaxInvocations

\* the accounts of the backend: a credential, and the identity it stands for;
\* invocation i comes with the credential of account i
Directory ==
    { [token |-> <<"t">> \o Digits(i, 1), user |-> <<"u">> \o Digits(i, 1), wid |-> <<"w">> \o Digits(i, 1)] :
        i \in Invocations }
Account(auth) == CHOOSE a \in Directory : BearerWord \o a.token = auth
Known(auth) == \E a \in Directory : BearerWord \o a.token = auth

\* the headers of the requests of each invocation: its own credential, or none
HeadersOf ==
    [i \in Invocations |->
        IF i % 2 = 1
        THEN { Dict([Authorization |-> Str(BearerWord \o <<"t">> \o Digits(i, 1))]), EmptyDict }
        ELSE { Dict([authorization |-> Str(BearerPrefix \o <<"t">> \o Digits(i, 1) \o <<" ">>)]), EmptyDict }]

\* what the backend holds for an account
IdentityOf(a) == Dict([Report_Entry |-> List(<<Dict([Current_User |-> Str(a.user), workdayID |-> Str(a.wid)])>>)])
ProfileOf(a) == Dict([id |-> Str(a.wid), workerId |-> Str(a.user)])
ReportsOf(a) == Dict([data |-> List(<<Dict([descriptor |-> Str(<<"r">> \o a.user)])>>)])

\* the replies to a call that carries auth
LookupRepliesOf(auth) ==
    IF Known(auth) THEN {JsonReply(200, IdentityOf(Account(auth))), JsonReply(404, ErrorDoc)}
    ELSE {EmptyReply(401, FALSE)}
ProfileRepliesOf(auth) ==
    IF Known(auth)
    THEN {JsonReply(200, Dict([data |-> List(<<ProfileOf(Account(auth))>>)])),
          JsonReply(200, Dict([data |-> List(<<>>)]))}
    ELSE {EmptyReply(401, FALSE)}
ReportRepliesOf(auth) ==
    IF Known(auth) THEN {JsonReply(200, ReportsOf(Account(auth))), TextReply(500, <<"o","o","p","s">>)}
    ELSE {EmptyReply(401, FALSE)}

InitConcurrent ==
    /\ pc = [i \in Invocations |-> "idle"]
    /\ route = [i \in Invocations |-> "none"]
    /\ request = [i \in Invocations |-> [headers |-> EmptyDict, body |-> Invalid, query |-> <<>>]]
    /\ client = [i \in Invocations |-> None]
    /\ locals = [i \in Invocations |-> None]
    /\ calls = [i \in Invocations |-> <<>>]
    /\ reply = [i \in Invocations |-> NoReply]
    /\ response = [i \in Invocations |-> NoResponse]
    /\ ret = [i \in Invocations |-> NoRet]

\* one instance that every invocation uses
ClientOfShared(i) == 1

\* the instance the local client of invocation i names: WorkdayClient(token,
\* logger) constructs a new one in every invocation
ClientOf(i) == i

\* _handle_request of invocation i up to the handler's first backend call
BeginConcurrent(i, rt, req) ==
    /\ pc[i] = "idle"
    /\ route' = [route EXCEPT ![i] = rt]
    /\ request' = [request EXCEPT ![i] = req]
    /\ IF TokenMissing(_extract_bearer_token(req.headers))
       THEN /\ client' = client
            /\ response' = [response EXCEPT ![i] = Unauthorized]
            /\ pc' = [pc EXCEPT ![i] = "done"]
       ELSE /\ client' = [client EXCEPT ![ClientOf(i)] = NewClient(_extract_bearer_token(req.headers).v)]
            /\ response' = response
            /\ pc' = [pc EXCEPT ![i] = "lookup"]
    /\ UNCHANGED <<locals, calls, reply, ret>>

get_worker_concurrent ==
    /\ \E i \in Invocations : pc[i] = "idle"
    /\ \E i \in Invocations : \E h \in HeadersOf[i] :
        BeginConcurrent(i, "getWorker", [headers |-> h, body |-> Invalid, query |-> <<>>])

get_direct_reports_concurrent ==
    /\ \E i \in Invocations : pc[i] = "idle"
    /\ \E i \in Invocations : \E h \in HeadersOf[i] :
        BeginConcurrent(i, "getDirectReports", [headers |-> h, body |-> Invalid, query |-> <<>>])

\* a call of invocation i on its instance gave res; the handler ends with out
\* when it raised or returned its payload, and goes on otherwise
StepConcurrent(i, method, r, res, new_locals, ended, out) ==
    /\ client' = [client EXCEPT ![ClientOf(i)] = res.client]
    /\ calls' = [calls EXCEPT ![i] = @ \o res.issued]
    /\ reply' = [reply EXCEPT ![i] = r]
    /\ ret' = [ret EXCEPT ![i] = Ret(method, res.out)]
    /\ locals' = [locals EXCEPT ![i] = new_locals]
    /\ response' = IF ~ended THEN response
                   ELSE [response EXCEPT ![i] = IF out.raised THEN FaultResponse(out.exc)
                                                ELSE HttpResponse(out.value, 200)]
    /\ pc' = [pc EXCEPT ![i] = IF ended THEN "done" ELSE "op"]
    /\ UNCHANGED <<route, request>>

\* the identity lookup gave res: context_ids is kept by the handler
LookupReturned(i, r, res) ==
    StepConcurrent(i, "get_user_context", r, res,
                   IF res.out.raised THEN None ELSE res.out.value, res.out.raised, res.out)

\* an invocation at its backend call at, holding an instance
AtCall(i, at) == pc[i] = at /\ client[ClientOf(i)] # None

\* client.get_user_context() of the handler of one invocation
LookupConcurrent ==
    /\ \E i \in Invocations : pc[i] = "lookup"
    /\ \E i \in Invocations :
        /\ AtCall(i, "lookup")
        /\ \E r \in LookupRepliesOf(_headers(client[ClientOf(i)])) :
            LookupReturned(i, r, get_user_context(client[ClientOf(i)], r))

\* the worker search gave res: get_worker returns the transformed profile
ProfileReturned(i, r, res) ==
    StepConcurrent(i, "transform_worker_profile", r, res, locals[i], TRUE, res.out)

get_worker_profile_concurrent ==
    /\ \E i \in Invocations : pc[i] = "op"
    /\ \E i \in Invocations :
        /\ AtCall(i, "op") /\ route[i] = "getWorker"
        /\ \E r \in ProfileRepliesOf(_headers(client[ClientOf(i)])) :
            ProfileReturned(i, r, transform_worker_profile(client[ClientOf(i)], NoReply, r))

\* the list of direct reports gave res: get_direct_reports returns its payload
ReportsReturned(i, r, res) ==
    StepConcurrent(i, "get_direct_reports", r, res, locals[i], TRUE,
                   IF res.out.raised THEN res.out
                   ELSE Return(RoutePayload("getDirectReports", None, <<res.out.value>>,
                                            locals[i].workday_id)))

get_direct_reports_concurrent_step ==
    /\ \E i \in Invocations : pc[i] = "op"
    /\ \E i \in Invocations :
        /\ AtCall(i, "op") /\ route[i] = "getDirectReports"
        /\ \E r \in ReportRepliesOf(_headers(client[ClientOf(i)])) :
            ReportsReturned(i, r, get_direct_reports(client[ClientOf(i)], Str(locals[i].workday_id), NoReply, r))

\* the response of one invocation is returned; its frame and its instance
\* are dropped
RespondConcurrent ==
    /\ \E i \in Invocations : pc[i] = "done"
    /\ \E i \in Invocations :
        /\ pc[i] = "done"
        /\ pc' = [pc EXCEPT ![i] = "idle"]
        /\ route' = [route EXCEPT ![i] = "none"]
        /\ request' = [request EXCEPT ![i] = [headers |-> EmptyDict, body |-> Invalid, query |-> <<>>]]
        /\ client' = [client EXCEPT ![ClientOf(i)] = None]
        /\ locals' = [locals EXCEPT ![i] = None]
        /\ calls' = [calls EXCEPT ![i] = <<>>]
        /\ reply' = [reply EXCEPT ![i] = NoReply]
        /\ response' = [response EXCEPT ![i] = NoResponse]
        /\ ret' = [ret EXCEPT ![i] = NoRet]

NextConcurrent ==
    \/ get_worker_concurrent
    \/ get_direct_reports_concurrent
    \/ LookupConcurrent
    \/ get_worker_profile_concurrent
    \/ get_direct_reports_concurrent_step
    \/ RespondConcurrent

SpecConcurrent == InitConcurrent /\ [][NextConcurrent]_vars

----------------------------------------------------------------------------
(* Properties                                                              *)

Processing == pc \in {"lookup", "op", "done"}
Responded == pc = "done"

BodyField(key) == Get(response.body, key, Absent)
IsFault(error) == Responded /\ IsDict(response.body) /\ BodyField("error") = Lit(error)

\* the Authorization header of a request, under either spelling of its name
AuthValue(headers) ==
    IF "Authorization" \in DOMAIN headers.kv /\ headers.kv["Authorization"] # Str(<<>>)
    THEN headers.kv["Authorization"]
    ELSE IF "authorization" \in DOMAIN headers.kv THEN headers.kv["authorization"]
    ELSE Absent

\* a header of the form "Bearer <token>" with a token that is not empty; the
\* scheme is compared without regard to case, as HTTP schemes are
BearerForm(v) ==
    /\ v # Absent
    /\ Len(v.v) > 7
    /\ \A i \in 1..6 : v.v[i] \in {BearerPrefix[i], BearerWord[i]}
    /\ v.v[7] = " "
    /\ \E i \in 8..Len(v.v) : v.v[i] # " "

\* C1: on every route, a request whose Authorization header is missing, empty,
\* not of the form "Bearer <token>" or carries an empty token is answered
\* 401 Unauthorized; no WorkdayClient is constructed and no backend call issued.
C1_Unauthorized ==
    Processing /\ ~BearerForm(AuthValue(request.headers)) =>
        /\ Responded
        /\ response.status_code = 401
        /\ BodyField("error") = Lit("Unauthorized")
        /\ client = None
        /\ calls = <<>>

\* a bookLeave request with the header "Bearer " (an empty token) was refused
C1_Witness ==
    /\ Responded
    /\ route = "bookLeave"
    /\ AuthValue(request.headers) = Str(BearerWord)
    /\ response.status_code = 401

\* C2: a response 400 BadRequest is produced only before any backend call:
\* no call, the identity lookup and the submission included, was issued
\* while processing that request.
C2_BadRequestBeforeCalls ==
    Responded /\ response.status_code = 400 /\ BodyField("error") = Lit("BadRequest") =>
        calls = <<>>

\* C3: every response is a JSON object with a boolean field success, false
\* on a fault.
C3_SuccessField ==
    Responded =>
        /\ IsDict(response.body)
        /\ BodyField("success") \in {Bool(TRUE), Bool(FALSE)}
        /\ (response.status_code # 200 => BodyField("success") = Bool(FALSE))

\* C4: a backend call whose HTTP status is outside 200-299 raises WorkdayError
\* with that status and the decoded body as payload, and its body is not
\* returned as a result.
C4_NonSuccessRaises ==
    Processing /\ calls # <<>> /\ reply.reached
               /\ ~(200 <= reply.status_code /\ reply.status_code <= 299) =>
        /\ calls[Len(calls)].raised
        /\ ret.out.raised
        /\ ret.out.exc.type = "WorkdayError"
        /\ ret.out.exc.status_code = reply.status_code
        /\ ret.out.exc.payload = DecodeBody(reply)

\* the gateway status of a backend fault, from the reply that caused it
ExpectedFaultStatus ==
    IF reply.reached /\ reply.status_code \in 400..599 THEN reply.status_code ELSE 502

\* C5 as stated: an operation that ends in a backend fault answers with the
\* backend's status if in 400-599 and 502 otherwise, and carries the fault
\* message and the decoded backend payload in details.
C5_FaultCarriesBackendPayload ==
    IsFault("WorkdayError") =>
        /\ response.status_code = ExpectedFaultStatus
        /\ BodyField("message") = ret.out.exc.message
        /\ BodyField("details") = (IF reply.reached THEN DecodeBody(reply) ELSE None)

\* the first entry of the report a lookup reply carries
FirstReportEntry == DecodeBody(reply).kv["Report_Entry"].items[1]

\* C5, amended: an operation that ends in a backend fault answers with the
\* backend's status if in 400-599 and 502 otherwise, and carries the fault
\* message and the fault's payload in details: the decoded backend body for a
\* 4xx/5xx reply and for a worker search without results, the first report
\* entry when an identifier is missing, null for a transport failure and for
\* a lookup without entries.
C5_FaultCarriesFaultPayload ==
    IsFault("WorkdayError") =>
        /\ ret.out.raised
        /\ response.status_code = ExpectedFaultStatus
        /\ BodyField("success") = Bool(FALSE)
        /\ BodyField("message") = ret.out.exc.message
        /\ BodyField("details") =
             (IF ~reply.reached THEN None
              ELSE IF reply.status_code \in 400..599 THEN DecodeBody(reply)
              ELSE IF ret.method # "get_user_context" THEN DecodeBody(reply)
              ELSE IF ret.out.exc.message.text = "Workday worker search report returned no entries"
              THEN None
              ELSE FirstReportEntry)

\* a 503 with an empty body, a transport failure and a lookup without an
\* identifier each ended an operation
C5_Witness ==
    /\ IsFault("WorkdayError")
    /\ \/ response.status_code = 503
       \/ ~reply.reached /\ response.status_code = 502
       \/ ret.method = "get_user_context" /\ reply.status_code = 200
            /\ BodyField("details") # None

\* the lookup calls in a call log
LookupCalls(cs) == Cardinality({i \in 1..Len(cs) : cs[i].endpoint = "worker_search"})

\* C6: on one instance, once get_user_context has succeeded the lookup is
\* never issued again: the call that fills the cache issues exactly one
\* lookup, every later get_user_context issues no backend call and returns
\* the cached context, and the cached context is never changed or reset.
C6_LookupOnce ==
    [][ /\ (client._user_context = None /\ client'._user_context # None =>
                LookupCalls(calls') = LookupCalls(calls) + 1)
        /\ (client._user_context # None =>
                /\ client'._user_context = client._user_context
                /\ LookupCalls(calls') = LookupCalls(calls))
        /\ (client._user_context # None /\ ret'.method = "get_user_context" =>
                /\ calls' = calls
                /\ ret'.out = Return(client._user_context))
      ]_vars

\* get_user_context returned the context although the last backend call of
\* the instance was a worker search: it was answered from the cache
C6_Witness ==
    /\ pc = "client"
    /\ ret.method = "get_user_context"
    /\ ~ret.out.raised
    /\ ret.out.value = client._user_context
    /\ calls # <<>>
    /\ calls[Len(calls)].endpoint = "workers"
    /\ LookupCalls(calls) = 1

\* C7: the cached subject context is unset or has both identifiers non-empty,
\* and a get_user_context that failed left the cache unset.
C7_ContextWhole ==
    /\ client._user_context # None =>
            /\ client._user_context.worker_id # <<>>
            /\ client._user_context.workday_id # <<>>
    /\ ret.method = "get_user_context" /\ ret.out.raised => client._user_context = None

\* a lookup whose first entry lacks an identifier failed and cached nothing
C7_Witness ==
    /\ pc = "client"
    /\ ret.method = "get_user_context"
    /\ ret.out.raised
    /\ ret.out.exc.message.text = "Worker search response did not include expected identifiers"
    /\ client._user_context = None

\* the echoed days of an accepted submission
Echo == Get(ret.out.value, "days", Absent)
EchoUsable ==
    /\ Echo.t = "list"
    /\ Echo.items # <<>>
    /\ \A i \in 1..Len(Echo.items) : IsDict(Echo.items[i])
EchoMissing == Echo \in {Absent, None, List(<<>>)}

\* a quantity that parses as a number counts, any other counts zero
QuantityOrZero(day) ==
    LET q == Get(day, "dailyQuantity", Absent)
    IN  IF q.t \in {"str", "num"} /\ FloatOfChars(q.v) >= 0 THEN FloatOfChars(q.v) ELSE 0

RECURSIVE SumQuantities(_)
SumQuantities(items) ==
    IF items = <<>> THEN 0 ELSE QuantityOrZero(Head(items)) + SumQuantities(Tail(items))

\* C8: once the backend accepted the submission, the total booked quantity is
\* the sum of dailyQuantity over the echoed days when they are present and
\* non-empty, and over the constructed day entries otherwise; a quantity that
\* is no number counts zero and the operation still answers with success.
C8_TotalQuantity ==
    /\ Responded /\ route = "bookLeave"
    /\ ret.method = "request_time_off" /\ ~ret.out.raised
    /\ EchoUsable \/ EchoMissing
    /\ \A path \in {<<BppPath, "overallBusinessProcess", "descriptor">>,
                    <<BppPath, "overallStatus">>,
                    <<BppPath, "transactionStatus", "descriptor">>} :
            GetPath(ret.out.value, path) # AttrErr
    =>
    /\ response.status_code = 200
    /\ BodyField("success") = Bool(TRUE)
    /\ BodyField("bookingDetails").kv.totalQuantity =
            Float(SumQuantities(IF EchoUsable THEN Echo.items ELSE locals.items))

\* date.toordinal(), by the day count of the years and months before
MonthOffsets == <<0, 31, 59, 90, 120, 151, 181, 212, 243, 273, 304, 334>>
Ordinal(dt) ==
    365 * (dt.y - 1) + ((dt.y - 1) \div 4) - ((dt.y - 1) \div 100) + ((dt.y - 1) \div 400)
    + MonthOffsets[dt.m] + (IF dt.m > 2 /\ IsLeap(dt.y) THEN 1 ELSE 0) + dt.d

RequestField(key) == IF IsDict(request.body) THEN Get(request.body, key, Absent) ELSE Absent

\* the request carries two calendar dates, the first not later than the second
ValidRange ==
    /\ RequestField("startDate").t = "str" /\ StrptimeChars(RequestField("startDate").v).ok
    /\ RequestField("endDate").t = "str" /\ StrptimeChars(RequestField("endDate").v).ok
    /\ Ordinal(StrptimeChars(RequestField("startDate").v).date)
         <= Ordinal(StrptimeChars(RequestField("endDate").v).date)

FirstOrdinal == Ordinal(StrptimeChars(RequestField("startDate").v).date)
LastOrdinal == Ordinal(StrptimeChars(RequestField("endDate").v).date)

\* entry i is the i-th day of the range: a zero-padded date, 08:00 to 17:00
EntryAsClaimed(entry, i) ==
    LET day == SubSeq(entry.kv.start.v, 1, 10)
    IN  /\ Len(day) = 10
        /\ StrptimeChars(day).ok
        /\ Ordinal(StrptimeChars(day).date) = FirstOrdinal + i - 1
        /\ entry.kv.start.v = day \o T0800
        /\ entry.kv["end"].v = day \o T1700
        /\ entry.kv.date.v = day \o T0800

DaysAsClaimed(items) ==
    /\ Len(items) = LastOrdinal - FirstOrdinal + 1
    /\ \A i \in 1..Len(items) : EntryAsClaimed(items[i], i)

\* C9: for bookLeave with valid dates and startDate <= endDate, the day
\* entries constructed and submitted are one per calendar day from startDate
\* to endDate inclusive, ascending, without gaps or duplicates, each from
\* 08:00:00.000Z to 17:00:00.000Z of its own date.
C9_OneEntryPerDay ==
    route = "bookLeave" /\ Processing /\ ValidRange =>
        /\ locals # None => DaysAsClaimed(locals.items)
        /\ \A k \in 1..Len(calls) :
               calls[k].endpoint = "requestTimeOff" =>
                   DaysAsClaimed(calls[k].json_body.kv.days.items)

\* a range of several days that ends on 2026-01-01 was submitted
C9_Witness ==
    /\ route = "bookLeave" /\ ValidRange
    /\ \E k \in 1..Len(calls) :
           /\ calls[k].endpoint = "requestTimeOff"
           /\ Len(calls[k].json_body.kv.days.items) >= 2
           /\ LET items == calls[k].json_body.kv.days.items
              IN  SubSeq(items[Len(items)].kv.start.v, 1, 10)
                    = <<"2","0","2","6","-","0","1","-","0","1">>

\* "days" in any mix of upper and lower case
IsDaysWord(u) ==
    /\ Len(u) = 4
    /\ u[1] \in {"d", "D"} /\ u[2] \in {"a", "A"} /\ u[3] \in {"y", "Y"} /\ u[4] \in {"s", "S"}

\* the requested quantity as a string; "8" when the request names none
RequestedQuantity ==
    LET q == RequestField("quantity")
    IN  CASE q = Absent -> <<"8">>
          [] q = None   -> <<"N","o","n","e">>
          [] OTHER      -> q.v

RequestedUnit == IF RequestField("unit") = Absent THEN Str(HoursWord) ELSE RequestField("unit")

\* C10: every constructed day entry's dailyQuantity is "8" when the unit is
\* "days" in any case, whatever the quantity; for any other unit it is the
\* requested quantity as a string, the same for every day ("8" and "Hours"
\* when the request names neither).
C10_DailyQuantity ==
    route = "bookLeave" /\ Processing /\ locals # None =>
        \A i \in 1..Len(locals.items) :
            locals.items[i].kv.dailyQuantity =
                Str(IF IsDaysWord(RequestedUnit.v) THEN <<"8">> ELSE RequestedQuantity)

\* several days were booked with unit "DAYS" and quantity "4.5"
C10_Witness ==
    /\ route = "bookLeave" /\ Responded /\ locals # None
    /\ Len(locals.items) >= 2
    /\ RequestedUnit = Str(<<"D","A","Y","S">>)
    /\ RequestField("quantity") = Str(<<"4",".","5">>)
    /\ \E k \in 1..Len(calls) : calls[k].endpoint = "requestTimeOff"

\* the caller passed authentication: a client was constructed
Authenticated == client # None

\* a required field of the body that is missing, empty or no string
FieldMalformed(key) == RequestField(key).t # "str" \/ RequestField(key).v = <<>>

\* a date field of the body that is no calendar date
DateMalformed(key) == FieldMalformed(key) \/ ~StrptimeChars(RequestField(key).v).ok

\* C11: for bookLeave with an authenticated caller, a body that is no JSON
\* object, or in which startDate, endDate or timeOffTypeId is missing, empty,
\* no string or (for the dates) no calendar date, ends in a validation fault
\* (400 BadRequest), never in an unexpected fault or a backend fault.
C11_ValidationFault ==
    /\ route = "bookLeave" /\ Processing /\ Authenticated
    /\ \/ ~IsDict(request.body)
       \/ DateMalformed("startDate")
       \/ DateMalformed("endDate")
       \/ FieldMalformed("timeOffTypeId")
    =>
    /\ Responded
    /\ response.status_code = 400
    /\ BodyField("error") = Lit("BadRequest")

\* C12: for bookLeave with two calendar dates of which endDate is earlier than
\* startDate, the operation ends in a validation fault (400 BadRequest) and no
\* backend call is issued, neither the identity lookup nor the submission.
C12_ReversedRange ==
    /\ route = "bookLeave" /\ Processing /\ Authenticated
    /\ ~DateMalformed("startDate") /\ ~DateMalformed("endDate")
    /\ LastOrdinal < FirstOrdinal
    =>
    /\ Responded
    /\ response.status_code = 400
    /\ BodyField("error") = Lit("BadRequest")
    /\ calls = <<>>

\* a reversed range inside one month was refused before any call
C12_Witness ==
    /\ route = "bookLeave" /\ Responded /\ Authenticated
    /\ ~DateMalformed("startDate") /\ ~DateMalformed("endDate")
    /\ LastOrdinal = FirstOrdinal - 1
    /\ StrptimeChars(RequestField("startDate").v).date.m = StrptimeChars(RequestField("endDate").v).date.m
    /\ BodyField("message") = Msg("endDate cannot be earlier than startDate", 0)
    /\ calls = <<>>

\* a backend call that was answered with a 2xx status
CallSucceeded(k) == calls[k].status \in 200..299

\* a lesson record, or content record, that its flattener takes
LessonTaken(lesson) == ~_flatten_lesson(lesson).raised
ContentTaken(item) == ~_flatten_content(item, List(<<>>)).raised

\* what a fetch gave the handler holds no record its flattener refuses
LessonsTaken(raw) ==
    raw = None \/ (raw.t = "list" /\ \A j \in 1..Len(raw.items) : LessonTaken(raw.items[j]))

\* the lessons the response owes item i: none when its fetch failed, what the
\* fetch returned, flattened, otherwise
LessonsOwed(i) ==
    IF ~CallSucceeded(i + 1) \/ locals.lessons_raw[i] = None THEN List(<<>>)
    ELSE List([j \in 1..Len(locals.lessons_raw[i].items) |->
                   _flatten_lesson(locals.lessons_raw[i].items[j]).value])

\* C13: in searchLearningContent, once the content search succeeded and
\* returned content records, every item whose lessons fetch failed has an
\* empty lessons sequence, every other item has the lessons its own fetch
\* returned, all items are in the response in their order with total equal
\* to their count, and the operation reports success.
C13_LessonsIsolated ==
    /\ route = "searchLearningContent" /\ Responded
    /\ calls # <<>> /\ CallSucceeded(1)
    /\ locals.items # <<>>
    /\ \A i \in 1..Len(locals.items) : IsDict(locals.items[i]) /\ ContentTaken(locals.items[i])
    /\ \A i \in 1..Len(locals.lessons_raw) : LessonsTaken(locals.lessons_raw[i])
    =>
    /\ response.status_code = 200
    /\ BodyField("success") = Bool(TRUE)
    /\ BodyField("total") = Int_(Len(locals.items))
    /\ Len(BodyField("content").items) = Len(locals.items)
    /\ Len(calls) = Len(locals.items) + 1
    /\ \A i \in 1..Len(locals.items) :
           BodyField("content").items[i] = _flatten_content(locals.items[i], LessonsOwed(i)).value

\* the list calls of getLeaveBalances, in their order
OverviewOrder == <<"balances", "eligibleAbsenceTypes", "leavesOfAbsence", "timeOffDetails">>
OverviewKeys == {"leaveBalances", "eligibleAbsenceTypes", "leavesOfAbsence", "bookedTimeOff"}

\* C14: getLeaveBalances is all-or-nothing. The response reports success with
\* all four lists iff the identity was resolved and all four list calls
\* succeeded; a list call that fails is the last call issued, the response is
\* that call's backend fault and carries none of the four lists; and the
\* calls are issued one after the other in the order balances, eligible
\* absence types, leaves of absence, time-off details.
C14_AllOrNothing ==
    route = "getLeaveBalances" /\ Responded /\ Authenticated =>
        /\ (/\ response.status_code = 200
            /\ BodyField("success") = Bool(TRUE)
            /\ OverviewKeys \subseteq DOMAIN response.body.kv)
           <=> (/\ client._user_context # None
                /\ Len(calls) = 5
                /\ \A k \in 1..5 : CallSucceeded(k))
        /\ \A k \in 2..Len(calls) :
               /\ calls[k].endpoint = OverviewOrder[k - 1]
               /\ ~CallSucceeded(k) =>
                      /\ k = Len(calls)
                      /\ IsFault("WorkdayError")
                      /\ response.status_code = ExpectedFaultStatus
                      /\ OverviewKeys \cap DOMAIN response.body.kv = {}

\* the methods that normalize a list, and the key each expects
ListMethods ==
    {"get_leave_balances", "get_eligible_absence_types", "get_leaves_of_absence",
     "get_time_off_details", "get_time_off_entries", "get_inbox_tasks", "get_direct_reports",
     "get_pay_slips", "get_learning_assignments", "get_content_lessons"}
ExpectedKey == IF ret.method = "get_learning_assignments" THEN "Report_Entry" ELSE "data"

\* a decoded body without the collection: no object, no such key, or a value
\* under it that cannot be iterated
LacksCollection(payload, key) ==
    \/ ~IsDict(payload)
    \/ key \notin DOMAIN payload.kv
    \/ payload.kv[key].t \notin {"list", "str", "dict"}

\* C15: when the successful reply to a list call lacks the expected
\* collection key (data, or Report_Entry for the learning assignments) or
\* holds under it a value that is not iterable, the list method yields an
\* empty sequence and the operation does not fail.
C15_EmptyWithoutCollection ==
    /\ Processing
    /\ ret.method \in ListMethods
    /\ reply.reached /\ reply.status_code \in 200..299
    /\ LacksCollection(DecodeBody(reply), ExpectedKey)
    =>
    /\ ~ret.out.raised
    /\ ret.out.value = List(<<>>)
    /\ Responded => response.status_code = 200 /\ BodyField("success") = Bool(TRUE)

\* a record without leaf fields: every value in it is such a record
RECURSIVE Hollow(_)
Hollow(v) == IsDict(v) /\ \A k \in DOMAIN v.kv : Hollow(v.kv[k])

\* the output fields of each normalizer
OutputFields ==
    [get_leave_balances |->
        {"planName", "planId", "balance", "unit", "effectiveDate", "timeOffTypes"},
     get_eligible_absence_types |->
        {"name", "id", "unit", "category", "group", "dailyDefaultQuantity",
         "startAndEndTimeRequired", "calculateQuantityBasedOnTime"},
     get_leaves_of_absence |->
        {"id", "leaveType", "status", "firstDayOfLeave", "lastDayOfWork", "estimatedLastDay", "comment"},
     get_time_off_details |->
        {"date", "timeOffType", "quantity", "unit", "status", "comment"},
     get_time_off_entries |->
        {"employee", "timeOffRequestStatus", "timeOffRequestDescriptor", "unitOfTime",
         "timeOffPlan", "timeOffDescriptor", "date", "units", "descriptor"},
     get_inbox_tasks |->
        {"assigned", "due", "initiator", "status", "stepType", "subject", "overallProcess", "descriptor"},
     get_direct_reports |->
        {"isManager", "primaryWorkPhone", "primaryWorkEmail", "primarySupervisoryOrganization",
         "businessTitle", "descriptor"},
     get_pay_slips |->
        {"gross", "status", "net", "date", "descriptor"},
     get_learning_assignments |->
        {"assignmentStatus", "dueDate", "learningContent", "overdue", "required", "workdayId"},
     transform_worker_profile |->
        {"workdayId", "workerId", "name", "email", "workerType", "businessTitle", "location",
         "locationId", "country", "countryCode", "supervisoryOrganization", "jobType",
         "jobProfile", "primaryJobId", "primaryJobDescriptor"},
     _flatten_lesson |->
        {"id", "descriptor", "description", "order", "required", "contentType", "duration",
         "contentURL", "instructors", "materials", "activityType", "virtualClassroomURL",
         "location", "trackAttendance", "trackGrades"},
     _flatten_content |->
        {"id", "descriptor", "description", "contentNumber", "contentURL", "version",
         "createdOnDate", "averageRating", "ratingCount", "popularity", "contentType",
         "contentProvider", "accessType", "deliveryMode", "skillLevel", "lifecycleStatus",
         "availabilityStatus", "excludeFromRecommendations", "excludeFromSearchAndBrowse",
         "learningCatalogs", "languages", "skills", "topics", "securityCategories",
         "contactPersons", "imageURL", "lessons"}]

\* the fields whose default is not null
OtherDefaults ==
    [get_leave_balances         |-> [balance |-> Str(<<"0">>), timeOffTypes |-> Str(<<>>)],
     get_eligible_absence_types |-> [startAndEndTimeRequired |-> Bool(FALSE),
                                     calculateQuantityBasedOnTime |-> Bool(FALSE)],
     get_leaves_of_absence      |-> [comment |-> Str(<<>>)],
     get_time_off_details       |-> [comment |-> Str(<<>>)],
     get_time_off_entries       |-> <<>>,
     get_inbox_tasks            |-> <<>>,
     get_direct_reports         |-> <<>>,
     get_pay_slips              |-> <<>>,
     get_learning_assignments   |-> [overdue |-> Bool(FALSE), required |-> Bool(FALSE)],
     transform_worker_profile   |-> <<>>,
     _flatten_lesson            |-> [instructors |-> List(<<>>), materials |-> List(<<>>)],
     _flatten_content           |-> [learningCatalogs |-> List(<<>>), languages |-> List(<<>>),
                                     skills |-> List(<<>>), topics |-> List(<<>>),
                                     securityCategories |-> List(<<>>),
                                     contactPersons |-> List(<<>>), lessons |-> List(<<>>)]]

\* the record of defaults of a normalizer
DefaultRecord(method) ==
    Dict([k \in OutputFields[method] |->
            IF k \in DOMAIN OtherDefaults[method] THEN OtherDefaults[method][k] ELSE None])

\* C16: every record normalizer (the profile, the items of the list methods,
\* the lesson and content flatteners), given a backend record in which every
\* nested object and every leaf field is missing, returns a record with
\* every output field present, null or at its default ("", "0", false or an
\* empty list), and does not fault.
C16_DefaultsWhenMissing ==
    pc = "records" /\ ret.method # "none" /\ Hollow(locals) =>
        /\ ~ret.out.raised
        /\ ret.out.value = DefaultRecord(ret.method)

\* a record whose nested objects are present and empty was normalized by a
\* list method, and the empty record by the content flattener
C16_Witness ==
    /\ pc = "records"
    /\ ~ret.out.raised
    /\ \/ ret.method = "get_leave_balances" /\ Hollow(locals) /\ "absencePlan" \in DOMAIN locals.kv
       \/ ret.method = "_flatten_content" /\ locals = EmptyDict

\* the worker search calls and all the calls a step added to the call log
WorkerCalls(cs) == Cardinality({i \in 1..Len(cs) : cs[i].endpoint = "workers"})
ProfileMethods == {"get_worker_profile", "transform_worker_profile"}
HasProfile == client # None /\ client._worker_profile_cache # None

OwnToken(i) == _extract_bearer_token(request[i].headers)
OwnAuth(i) == BearerWord \o OwnToken(i).v
OwnAccount(i) == CHOOSE a \in Directory : a.token = OwnToken(i).v
OwnContext(i) == UserContext(OwnAccount(i).user, OwnAccount(i).wid)

\* invocation i is being processed with a credential
Served(i) == pc[i] # "idle" /\ Truthy(OwnToken(i))

\* the instance of invocation i is bound to its credential, and every call
\* logged for it carries that credential
OwnCredential(i) ==
    /\ client[i] # None
    /\ client[i]._access_token = OwnToken(i).v
    /\ \A k \in 1..Len(calls[i]) : calls[i][k].auth = OwnAuth(i)

\* what the instance of invocation i caches, what its methods returned and
\* what the invocation responds is of its own account
OwnValues(i) ==
    /\ client[i]._user_context \in {None, OwnContext(i)}
    /\ client[i]._worker_profile_cache \in {None, ProfileOf(OwnAccount(i))}
    /\ locals[i] \in {None, OwnContext(i)}
    /\ (ret[i].method = "get_user_context" /\ ~ret[i].out.raised) => ret[i].out.value = OwnContext(i)
    /\ (ret[i].method = "transform_worker_profile" /\ ~ret[i].out.raised) =>
           ret[i].out.value.kv.workerId = Str(OwnAccount(i).user)
    /\ (response[i].status_code = 200 /\ route[i] = "getWorker") =>
           /\ response[i].body.kv.workerId = Str(OwnAccount(i).user)
           /\ response[i].body.kv.workdayId = Str(OwnAccount(i).wid)
    /\ (response[i].status_code = 200 /\ route[i] = "getDirectReports") =>
           /\ Len(response[i].body.kv.directReports.items) = 1
           /\ response[i].body.kv.directReports.items[1].kv.descriptor = Str(<<"r">> \o OwnAccount(i).user)

\* a step of invocation i leaves what belongs to every other invocation
OwnStep(i) ==
    pc'[i] # pc[i] =>
        \A j \in Invocations \ {i} :
            /\ client'[j] = client[j]
            /\ calls'[j] = calls[j]
            /\ locals'[j] = locals[j]
            /\ ret'[j] = ret[j]
            /\ response'[j] = response[j]

\* C18: whatever the interleaving of invocations with different credentials,
\* each has an instance of its own bound to its credential, every backend
\* call issued for it carries that credential, what its instance caches and
\* what it returns is of its own account, and a step of one invocation
\* changes nothing of another.
C18_OwnClient ==
    /\ [](\A i \in Invocations : Served(i) => OwnCredential(i) /\ OwnValues(i))
    /\ [][\A i \in Invocations : OwnStep(i)]_vars

\* one invocation has responded with the profile of its account while the
\* other, with another credential, holds its cached identity and goes on
C18_Witness ==
    /\ DOMAIN pc = Invocations
    /\ pc[1] = "done" /\ route[1] = "getWorker" /\ response[1].status_code = 200
    /\ pc[2] = "op" /\ route[2] = "getDirectReports"
    /\ client[1]._worker_profile_cache # None
    /\ client[2]._user_context # None
    /\ Len(calls[1]) = 2 /\ Len(calls[2]) = 1
    /\ calls[1][1].auth # calls[2][1].auth

====
